---- MODULE Spec2Model ----
(***************************************************************************)
(* Smart Transport System for Cairo: the five optimisation routines        *)
(* (src/src/algorithms) as state machines.                                 *)
(*                                                                         *)
(*   run_transit_optimization   dp.py            SpecTransit               *)
(*   run_mst_algorithm          mst.py           SpecMST                   *)
(*   run_greedy_algorithm       greedy.py        SpecGreedy                *)
(*   run_dijkstra               shortestpath.py  SpecDijkstra              *)
(*   run_a_star                 shortestpath.py  SpecAStar                 *)
(*   main (graph construction)  app.py           SpecBuild                 *)
(*   main (a user session)      app.py           SpecSession               *)
(*                                                                         *)
(* SpecTransitPair, SpecDijkstraPair and SpecMSTTwice run a routine twice  *)
(* to compare the results; SpecSignalLookup runs run_greedy_algorithm from *)
(* its traffic_flows and intersection arguments.                           *)
(*                                                                         *)
(* Each routine is a call with its own local state, so each has its own    *)
(* variable (a record whose fields are the routine's locals, under their   *)
(* source names) and its own specification; the variables of the routines  *)
(* that are not running stay at Idle.                                      *)
(*                                                                         *)
(* Arithmetic.  The code computes in binary floating point; the model      *)
(* computes the same expressions exactly, as integers over a common        *)
(* denominator that is stated at each definition.  Where the outcome of a  *)
(* comparison or of int() hangs on the last bit of a float (two sums that  *)
(* are equal exactly, a quotient that is whole exactly), the model takes   *)
(* every outcome.                                                          *)
(***************************************************************************)
EXTENDS Integers, Sequences, FiniteSets, TLC

VARIABLES transit, mst, greedy, dijkstra, astar, app

vars == <<transit, mst, greedy, dijkstra, astar, app>>

Idle == [pc |-> "idle"]

----------------------------------------------------------------------------
(* Helpers *)

Range(s) == {s[i] : i \in 1..Len(s)}

RECURSIVE SumSeq(_)
SumSeq(s) == IF s = <<>> THEN 0 ELSE Head(s) + SumSeq(Tail(s))

\* The subsets of S of at most k elements.
RECURSIVE SubsetsUpTo(_, _)
SubsetsUpTo(S, k) ==
    IF k = 0 THEN {{}}
    ELSE LET smaller == SubsetsUpTo(S, k - 1)
         IN  smaller \cup {T \cup {x} : T \in smaller, x \in S}

\* The elements of a set of integers, ascending.
RECURSIVE Ascending(_)
Ascending(S) ==
    IF S = {} THEN <<>>
    ELSE LET m == CHOOSE x \in S : \A y \in S : x <= y
         IN  <<m>> \o Ascending(S \ {m})

RECURSIVE SumOver(_, _)
\* sum(f[x] for x in S)
SumOver(f, S) ==
    IF S = {} THEN 0
    ELSE LET x == CHOOSE y \in S : TRUE IN f[x] + SumOver(f, S \ {x})

Min2(a, b) == IF a <= b THEN a ELSE b
Max2(a, b) == IF a >= b THEN a ELSE b

----------------------------------------------------------------------------
(***************************************************************************)
(* run_transit_optimization (dp.py)                                        *)
(***************************************************************************)

\* Largest fleet target the model tries (the starting fleet is 102).
MaxTotalBuses == 112

\* dp.py:15-86, the catalog: id, daily_passengers, current_buses.
bus_routes ==
    << [id |-> "B1",  daily_passengers |-> 35000, current_buses |-> 12],
       [id |-> "B2",  daily_passengers |-> 42000, current_buses |-> 15],
       [id |-> "B3",  daily_passengers |-> 28000, current_buses |-> 10],
       [id |-> "B4",  daily_passengers |-> 32000, current_buses |-> 11],
       [id |-> "B5",  daily_passengers |-> 30000, current_buses |-> 10],
       [id |-> "B6",  daily_passengers |-> 25000, current_buses |-> 9],
       [id |-> "B7",  daily_passengers |-> 18000, current_buses |-> 7],
       [id |-> "B8",  daily_passengers |-> 22000, current_buses |-> 8],
       [id |-> "B9",  daily_passengers |-> 15000, current_buses |-> 6],
       [id |-> "B10", daily_passengers |-> 38000, current_buses |-> 14] >>

RouteIdx == 1..Len(bus_routes)

\* allocation = {route["id"]: route["current_buses"]}; keyed here by the
\* route's place in the catalog.
InitialAllocation == [i \in RouteIdx |-> bus_routes[i].current_buses]

\* sum(allocation.values())
AllocationTotal(allocation) == SumOver(allocation, RouteIdx)

\* current_total_wait for a route holding `buses` buses, as the numerator of a
\* fraction over `buses`:
\*   (1080/6)/buses/2 * (D*0.7/6)*6 + (1080/12)/buses/2 * (D*0.3/12)*12
\*     = (63 D + 13.5 D) / buses = 76.5 D / buses.
\* D is a whole number of thousands for every route, and the numerator is
\* kept in units of 500 passenger-minutes: 153 * (D / 1000).
TotalWaitNum(route) == 153 * (route.daily_passengers \div 1000)

\* A marginal value as a fraction <<numerator, denominator>>, denominator > 0;
\* float('inf') is <<1, 0>>.
Inf == <<1, 0>>
IsInf(v) == v[2] = 0
\* v < w on such fractions (nothing is below itself; inf is above every finite value)
FracLess(v, w) ==
    IF IsInf(v) THEN FALSE
    ELSE IF IsInf(w) THEN TRUE
    ELSE v[1] * w[2] < w[1] * v[2]

\* value = current_total_wait - new_total_wait with one bus added:
\*   N/b - N/(b+1) = N / (b (b+1))
AddValue(allocation, i) ==
    LET b == allocation[i]
    IN  <<TotalWaitNum(bus_routes[i]), b * (b + 1)>>

\* cost = new_total_wait - current_total_wait with one bus removed:
\*   N/(b-1) - N/b = N / (b (b-1)); float('inf') for a route with
\*   current_buses <= 1.
RemoveCostNoGuard(allocation, i) ==
    LET b == allocation[i]
    IN  IF b * (b - 1) > 0 THEN <<TotalWaitNum(bus_routes[i]), b * (b - 1)>>
        ELSE <<0, 1>>
RemoveCost(allocation, i) ==
    LET b == allocation[i]
    IN  IF b <= 1 THEN Inf
        ELSE <<TotalWaitNum(bus_routes[i]), b * (b - 1)>>

\* The variant that ranks the routes by daily_passengers alone.
CandidatesToAddByDemand(allocation) ==
    {i \in RouteIdx :
        \A j \in RouteIdx :
            bus_routes[j].daily_passengers <= bus_routes[i].daily_passengers}

\* route_values.sort(key=value, reverse=True); route_values[0] (dp.py:224-227).
\* The routes a bus may go to: those of the largest value. The values are
\* floats: two routes whose exact values are equal can come out of the
\* float computation in either order or equal (then the stable sort keeps
\* the catalog order), so each of them is a possible route_values[0]; two
\* routes whose exact values differ are ordered by the floats as they are
\* exactly (the relative gap is far above the rounding error).
CandidatesToAdd(allocation) ==
    {i \in RouteIdx :
        \A j \in RouteIdx : ~FracLess(AddValue(allocation, i), AddValue(allocation, j))}

\* route_values.sort(key=value); route_values[0] (dp.py:271-274): the routes
\* of the smallest removal cost, as above. When every route holds at most one
\* bus every cost is float('inf'), the sort keeps the catalog order and
\* route_values[0] is the first route.
CandidatesToRemove(allocation) ==
    IF \A i \in RouteIdx : IsInf(RemoveCost(allocation, i))
    THEN {1}
    ELSE {i \in RouteIdx :
            \A j \in RouteIdx :
                ~FracLess(RemoveCost(allocation, j), RemoveCost(allocation, i))}

\* extra_buses = total_buses - current_total (dp.py:191-192)
ExtraBusesByRoutes(total_buses, allocation) == total_buses - Len(bus_routes)
ExtraBuses(total_buses, allocation) == total_buses - AllocationTotal(allocation)

\* The state after the prologue of the call (dp.py:188-192).
TransitCall(total_buses) ==
    [pc |-> "allocate",
     total_buses |-> total_buses,
     allocation |-> InitialAllocation,
     extra_buses |-> ExtraBuses(total_buses, InitialAllocation),
     total_buses_allocated |-> 0]

InitTransit ==
    /\ transit \in {TransitCall(t) : t \in 0..MaxTotalBuses}
    /\ mst = Idle /\ greedy = Idle /\ dijkstra = Idle /\ astar = Idle
    /\ app = Idle

\* One pass of `while extra_buses > 0` (dp.py:197-228).
AddBus ==
    /\ transit.pc = "allocate"
    /\ transit.extra_buses > 0
    /\ \E i \in CandidatesToAdd(transit.allocation) :
          transit' = [transit EXCEPT
                        !.allocation[i] = @ + 1,
                        !.extra_buses = @ - 1]
    /\ UNCHANGED <<mst, greedy, dijkstra, astar, app>>

\* One pass of `while extra_buses < 0` (dp.py:233-275).
RemoveBus ==
    /\ transit.pc = "allocate"
    /\ transit.extra_buses < 0
    /\ \E i \in CandidatesToRemove(transit.allocation) :
          transit' = [transit EXCEPT
                        !.allocation[i] = @ - 1,
                        !.extra_buses = @ + 1]
    /\ UNCHANGED <<mst, greedy, dijkstra, astar, app>>

\* The loops are over; the waiting times are computed (dp.py:283-289) and the
\* results returned (dp.py:384-406). `(operational_minutes / 6) / buses`
\* raises ZeroDivisionError for a route left with no bus.
TransitReturn ==
    /\ transit.pc = "allocate"
    /\ transit.extra_buses = 0
    /\ IF \E i \in RouteIdx : transit.allocation[i] = 0
       THEN transit' = [transit EXCEPT !.pc = "ZeroDivisionError"]
       ELSE transit' = [transit EXCEPT
                          !.pc = "returned",
                          !.total_buses_allocated = AllocationTotal(transit.allocation)]
    /\ UNCHANGED <<mst, greedy, dijkstra, astar, app>>

NextTransit == AddBus \/ RemoveBus \/ TransitReturn

SpecTransit == InitTransit /\ [][NextTransit]_vars

StartingFleet == AllocationTotal(InitialAllocation)

\* C2: whatever the fleet target, the allocation that run_transit_optimization
\* returns sums to exactly total_buses, buses added or removed, and
\* results.total_buses_allocated reports that number.
C2_Conservation ==
    transit.pc = "returned" =>
        /\ AllocationTotal(transit.allocation) = transit.total_buses
        /\ transit.total_buses_allocated = transit.total_buses

\* A call that had buses to add has returned.
C2_Witness ==
    /\ transit.pc = "returned"
    /\ transit.total_buses > StartingFleet
    /\ transit.allocation # InitialAllocation

----------------------------------------------------------------------------
(***************************************************************************)
(* run_mst_algorithm (mst.py)                                              *)
(***************************************************************************)

\* Most roads (existing and potential together) in one input.
MaxRoads == 4

\* The nodes of the inputs: two neighborhoods, one below and one above the
\* high-population threshold (loader.py:10-11), a hospital and a facility
\* that is not critical (loader.py:30,37).
mst_neighborhoods ==
    << [id |-> "1", population |-> 250000],
       [id |-> "2", population |-> 500000] >>
mst_facilities == << [id |-> "F9"], [id |-> "F2"] >>

\* mst_graph.nodes() after mst.py:28-41
MstNodes == {mst_neighborhoods[i].id : i \in 1..Len(mst_neighborhoods)}
            \cup {mst_facilities[i].id : i \in 1..Len(mst_facilities)}

\* The road records the inputs are drawn from, in the order they keep in the
\* input lists. Among the existing roads one pair of nodes comes a second
\* time the other way round (as roads 7-15 and 15-7 of loader.py:55,64), and
\* one road is a self-loop.
GoodRoad(from, to) ==
    [from |-> from, to |-> to, distance |-> 1, capacity |-> 3000, condition |-> 10]
PoorRoad(from, to) ==
    [from |-> from, to |-> to, distance |-> 2, capacity |-> 2000, condition |-> 6]
NewRoad(from, to, cost) ==
    [from |-> from, to |-> to, distance |-> 4, capacity |-> 4000, cost |-> cost]

ExistingCatalog ==
    << GoodRoad("1", "2"), GoodRoad("1", "F9"), GoodRoad("1", "F2"),
       GoodRoad("2", "F9"), GoodRoad("2", "F2"), GoodRoad("F9", "F2"),
       GoodRoad("2", "1"), GoodRoad("1", "1"),
       PoorRoad("1", "2"), PoorRoad("2", "F9"), PoorRoad("F9", "F2") >>

PotentialCatalog ==
    << NewRoad("1", "2", 40), NewRoad("1", "F9", 40), NewRoad("2", "F2", 40),
       NewRoad("1", "F2", 5), NewRoad("2", "F9", 10) >>

\* The sub-list of `catalog` at the places S.
Pick(catalog, S) ==
    LET idx == Ascending(S \cap DOMAIN catalog)
    IN  [k \in 1..Len(idx) |-> catalog[idx[k]]]

\* if source_pop and target_pop and (source_pop >= 400000 or target_pop >= 400000)
\* (mst.py:60-71, 120-131): source_pop / target_pop stay None unless the
\* endpoint is a neighborhood.
PopulationOf(id) ==
    IF \E i \in 1..Len(mst_neighborhoods) : mst_neighborhoods[i].id = id
    THEN (CHOOSE n \in Range(mst_neighborhoods) : n.id = id).population
    ELSE 0
HighPopulation(road) ==
    LET source_pop == PopulationOf(road.from)
        target_pop == PopulationOf(road.to)
    IN  /\ source_pop # 0
        /\ target_pop # 0
        /\ (source_pop >= 400000 \/ target_pop >= 400000)

\* is_hospital_connection (mst.py:80-88, 140-148)
IsHospitalConnection(road) ==
    \/ road.from \in {"F9", "F10"} \/ road.to \in {"F9", "F10"}
    \/ road.from = "F1" \/ road.to = "F1"

\* maintenance_cost = (11 - road['condition']) * 10 (mst.py:49)
MaintenanceCost(road) == (11 - road.condition) * 10

\* The weight of an existing road (mst.py:52-91), in hundredths:
\*   distance * maintenance_cost [* 0.7] [* 0.6]
ExistingWeight(road, prioritize_hospitals, prioritize_high_population) ==
    road.distance * MaintenanceCost(road)
      * (IF prioritize_high_population /\ HighPopulation(road) THEN 7 ELSE 10)
      * (IF prioritize_hospitals /\ IsHospitalConnection(road) THEN 6 ELSE 10)

\* The weight of a potential road (mst.py:111-151), in hundredths:
\*   cost [* 0.8] [* 0.7]
PotentialWeight(road, prioritize_hospitals, prioritize_high_population) ==
    road.cost
      * (IF prioritize_high_population /\ HighPopulation(road) THEN 8 ELSE 10)
      * (IF prioritize_hospitals /\ IsHospitalConnection(road) THEN 7 ELSE 10)

\* The variant whose 'cost' is the discounted weight (weights are in
\* hundredths).
ExistingEdgeDiscountedCost(road, ph, pp) ==
    [from |-> road.from, to |-> road.to,
     weight |-> ExistingWeight(road, ph, pp),
     distance |-> road.distance,
     road_type |-> "existing",
     cost |-> (MaintenanceCost(road)
                * (IF pp /\ HighPopulation(road) THEN 7 ELSE 10)
                * (IF ph /\ IsHospitalConnection(road) THEN 6 ELSE 10)) \div 100]

\* edges.append((from, to, {...})) (mst.py:94-106, 154-165)
ExistingEdge(road, ph, pp) ==
    [from |-> road.from, to |-> road.to,
     weight |-> ExistingWeight(road, ph, pp),
     distance |-> road.distance,
     road_type |-> "existing",
     cost |-> MaintenanceCost(road)]
PotentialEdge(road, ph, pp) ==
    [from |-> road.from, to |-> road.to,
     weight |-> PotentialWeight(road, ph, pp),
     distance |-> road.distance,
     road_type |-> "potential",
     cost |-> road.cost]

\* The edge list before it is sorted: existing roads, then potential roads.
EdgeList(existing_roads, potential_roads, ph, pp) ==
    [k \in 1..Len(existing_roads) |-> ExistingEdge(existing_roads[k], ph, pp)]
    \o [k \in 1..Len(potential_roads) |-> PotentialEdge(potential_roads[k], ph, pp)]

\* The variant that puts an edge before the edges of its own weight.
RECURSIVE InsertBeforeEqualWeight(_, _)
InsertBeforeEqualWeight(sorted, e) ==
    IF sorted = <<>> THEN <<e>>
    ELSE IF Head(sorted).weight < e.weight
         THEN <<Head(sorted)>> \o InsertBeforeEqualWeight(Tail(sorted), e)
         ELSE <<e>> \o sorted

\* list.sort(key=weight) is stable: an edge goes after every edge already
\* placed whose weight is not larger.
RECURSIVE InsertByWeight(_, _)
InsertByWeight(sorted, e) ==
    IF sorted = <<>> THEN <<e>>
    ELSE IF Head(sorted).weight <= e.weight
         THEN <<Head(sorted)>> \o InsertByWeight(Tail(sorted), e)
         ELSE <<e>> \o sorted
RECURSIVE SortByWeightFrom(_, _)
SortByWeightFrom(sorted, rest) ==
    IF rest = <<>> THEN sorted
    ELSE SortByWeightFrom(InsertByWeight(sorted, Head(rest)), Tail(rest))
\* edges.sort(key=lambda x: x[2]['weight']) (mst.py:168)
Unsorted(edges) == edges
SortByWeight(edges) == SortByWeightFrom(<<>>, edges)

\* The state at the head of the Kruskal loop (mst.py:25-178).
MstCall(existing_roads, potential_roads, ph, pp) ==
    [pc |-> "kruskal",
     existing_roads |-> existing_roads,
     potential_roads |-> potential_roads,
     prioritize_hospitals |-> ph,
     prioritize_high_population |-> pp,
     edges |-> SortByWeight(EdgeList(existing_roads, potential_roads, ph, pp)),
     next |-> 1,
     trees |-> [n \in MstNodes |-> {n}],
     selected_roads |-> <<>>,
     existing_count |-> 0,
     new_count |-> 0,
     total_cost |-> 0,
     all_connected |-> FALSE]

MstInputs ==
    LET n == Len(ExistingCatalog)
        places == 1..(n + Len(PotentialCatalog))
        shifted(S) == {i - n : i \in S \ (1..n)}
    IN  {MstCall(Pick(ExistingCatalog, S), Pick(PotentialCatalog, shifted(S)), ph, pp) :
            S \in SubsetsUpTo(places, MaxRoads), ph \in BOOLEAN, pp \in BOOLEAN}

InitMST ==
    /\ mst \in MstInputs
    /\ transit = Idle /\ greedy = Idle /\ dijkstra = Idle /\ astar = Idle
    /\ app = Idle

\* The variant that looks at the endpoints only.
DifferentEnds(trees, u, v) == u # v

\* if trees[u] != trees[v] (mst.py:183)
SameTree(trees, u, v) == trees[u] = trees[v]
DifferentTrees(trees, u, v) == trees[u] # trees[v]

\* union = trees[u].union(trees[v]); for node in union: trees[node] = union
\* (mst.py:205-207)
MergeOnlyEnds(trees, u, v) ==
    [n \in DOMAIN trees |-> IF n \in {u, v} THEN trees[u] \cup trees[v] ELSE trees[n]]
MergeTrees(trees, u, v) ==
    LET union == trees[u] \cup trees[v]
    IN  [n \in DOMAIN trees |-> IF n \in union THEN union ELSE trees[n]]

\* One pass of the loop whose edge joins two trees (mst.py:183-207).
KruskalSelect ==
    /\ mst.pc = "kruskal"
    /\ mst.next <= Len(mst.edges)
    /\ LET data == mst.edges[mst.next]
           u == data.from
           v == data.to
       IN  /\ DifferentTrees(mst.trees, u, v)
           /\ mst' = [mst EXCEPT
                        !.selected_roads = Append(@,
                            [from |-> u, to |-> v, distance |-> data.distance,
                             road_type |-> data.road_type, weight |-> data.weight]),
                        !.existing_count = IF data.road_type = "existing" THEN @ + 1 ELSE @,
                        !.new_count = IF data.road_type = "existing" THEN @ ELSE @ + 1,
                        !.total_cost = @ + data.cost,
                        !.trees = MergeTrees(mst.trees, u, v),
                        !.next = @ + 1]
    /\ UNCHANGED <<transit, greedy, dijkstra, astar, app>>

\* One pass of the loop whose edge lies within one tree.
KruskalSkip ==
    /\ mst.pc = "kruskal"
    /\ mst.next <= Len(mst.edges)
    /\ LET data == mst.edges[mst.next]
       IN  ~DifferentTrees(mst.trees, data.from, data.to)
    /\ mst' = [mst EXCEPT !.next = @ + 1]
    /\ UNCHANGED <<transit, greedy, dijkstra, astar, app>>

\* all_connected = len(set(frozenset(tree) for tree in trees.values())) == 1
\* (mst.py:210)
AllConnected(trees) == Cardinality({trees[n] : n \in DOMAIN trees}) = 1

\* The loop is over: the results are built and returned (mst.py:210-228).
MstReturn ==
    /\ mst.pc = "kruskal"
    /\ mst.next > Len(mst.edges)
    /\ mst' = [mst EXCEPT !.pc = "returned",
                          !.all_connected = AllConnected(mst.trees)]
    /\ UNCHANGED <<transit, greedy, dijkstra, astar, app>>

NextMST == KruskalSelect \/ KruskalSkip \/ MstReturn

SpecMST == InitMST /\ [][NextMST]_vars

\* The nodes joined to a node of S by the roads `ends` (pairs of endpoints).
RECURSIVE ReachedFrom(_, _)
ReachedFrom(S, ends) ==
    LET more == S \cup {e[2] : e \in {d \in ends : d[1] \in S}}
                  \cup {e[1] : e \in {d \in ends : d[2] \in S}}
    IN  IF more = S THEN S ELSE ReachedFrom(more, ends)

\* The connected components of the graph (nodes, ends).
Components(nodes, ends) == {ReachedFrom({n}, ends) : n \in nodes}

\* The endpoints of the roads given to the call.
MstInputEnds ==
    {<<mst.edges[k].from, mst.edges[k].to>> : k \in 1..Len(mst.edges)}
MstInputConnected == Cardinality(Components(MstNodes, MstInputEnds)) = 1

\* C5: a connected input gives exactly |nodes| - 1 selected roads and
\* all_connected = True; a disconnected input gives fewer roads and
\* all_connected = False, and the call returns (no error) either way.
C5_SpanningTree ==
    /\ mst.pc \in {"idle", "kruskal", "returned"}
    /\ mst.pc = "returned" =>
          IF MstInputConnected
          THEN /\ Len(mst.selected_roads) = Cardinality(MstNodes) - 1
               /\ mst.all_connected
          ELSE /\ Len(mst.selected_roads) < Cardinality(MstNodes) - 1
               /\ ~mst.all_connected

\* A connected input with a road to spare has been solved.
C5_Witness ==
    /\ mst.pc = "returned"
    /\ MstInputConnected
    /\ Len(mst.edges) > Len(mst.selected_roads)
    /\ mst.all_connected

\* The total discounted weight of the edges at the places T of mst.edges.
RECURSIVE WeightOfPlaces(_)
WeightOfPlaces(T) ==
    IF T = {} THEN 0
    ELSE LET k == CHOOSE x \in T : TRUE
         IN  mst.edges[k].weight + WeightOfPlaces(T \ {k})
EndsOfPlaces(T) == {<<mst.edges[k].from, mst.edges[k].to>> : k \in T}
SelectedWeight ==
    SumSeq([k \in 1..Len(mst.selected_roads) |-> mst.selected_roads[k].weight])
SelectedEnds ==
    {<<mst.selected_roads[k].from, mst.selected_roads[k].to>> :
        k \in 1..Len(mst.selected_roads)}

\* C6: the selected roads are a minimum spanning forest for the discounted
\* weight: they connect what the input roads connect, and no set of input
\* roads that does so has a smaller total discounted weight.
C6_MinimumSpanningForest ==
    mst.pc = "returned" =>
        /\ Components(MstNodes, SelectedEnds) = Components(MstNodes, MstInputEnds)
        /\ \A T \in SUBSET (1..Len(mst.edges)) :
              Components(MstNodes, EndsOfPlaces(T)) = Components(MstNodes, MstInputEnds)
                  => SelectedWeight <= WeightOfPlaces(T)

\* A returned forest that left out a road heavier than one it took.
C6_Witness ==
    /\ mst.pc = "returned"
    /\ Len(mst.selected_roads) >= 2
    /\ \E k \in 1..Len(mst.edges) :
          /\ mst.edges[k].weight > mst.selected_roads[1].weight
          /\ mst.edges[k].from # mst.edges[k].to
          /\ \A j \in 1..Len(mst.selected_roads) :
                <<mst.edges[k].from, mst.edges[k].to>>
                    # <<mst.selected_roads[j].from, mst.selected_roads[j].to>>

----------------------------------------------------------------------------
(***************************************************************************)
(* run_greedy_algorithm (greedy.py)                                        *)
(*                                                                         *)
(* Flows are in hundreds of vehicles per hour: every result of the call    *)
(* that the model keeps is a ratio of flows. The outbound entry of a road  *)
(* is its inbound flow times a ratio that depends on the time period only  *)
(* (greedy.py:41-52), so a road's flow over both directions is its inbound *)
(* flow times one factor common to all roads, which cancels in every share *)
(* and in the flow-weighted average wait.                                  *)
(***************************************************************************)

\* Most roads at one intersection.
MaxSignalRoads == 3

TimeBuckets == {"morning_peak", "afternoon", "evening_peak", "night"}

\* max_cycle_length values tried (app.py:912 offers 60..180).
CycleLengths == {60, 100, 120}

Priorities ==
    {"Minimize Average Delay", "Prioritize High-Traffic Roads", "Balance Wait Times"}

\* The per-bucket records traffic_flows can hold for a road (loader.py:98-127
\* holds such records); NoRecord: the road is not a key of traffic_flows.
NoRecord == [none |-> TRUE]
FlowRecords ==
    { [morning_peak |-> 1, afternoon |-> 1, evening_peak |-> 1, night |-> 1],
      [morning_peak |-> 3, afternoon |-> 1, evening_peak |-> 4, night |-> 0],
      [morning_peak |-> 4, afternoon |-> 9, evening_peak |-> 1, night |-> 2] }

SignalPeriods == {"morning_peak", "afternoon", "evening_peak", "all_day"}

\* Four times the inbound flow of a road (greedy.py:24-30): the average over
\* the record's buckets for "all_day" (a whole number of quarters for the
\* records used), the bucket's value or 0 when the record lacks the bucket
\* otherwise; a road without a record has no traffic_data entry and counts
\* for 0.
Flow4(record, time_period) ==
    IF record = NoRecord THEN 0
    ELSE IF time_period = "all_day"
         THEN (4 * SumOver(record, DOMAIN record)) \div Cardinality(DOMAIN record)
         ELSE IF time_period \in DOMAIN record THEN 4 * record[time_period] ELSE 0

IsSquare(n) == \E r \in 0..n : r * r = n
Sqrt(n) == CHOOSE r \in 0..n : r * r = n

\* The weight that decides a road's share of the cycle: flow (greedy.py:66-69),
\* flow ** 1.5 (greedy.py:84-89) or flow ** 0.5 (greedy.py:103-109), up to
\* a factor common to the roads. The two powers are taken of perfect squares.
ShareWeight(priority, flow4) ==
    IF priority = "Minimize Average Delay" THEN flow4
    ELSE IF priority = "Prioritize High-Traffic Roads"
         THEN Sqrt(flow4) * Sqrt(flow4) * Sqrt(flow4)
         ELSE Sqrt(flow4)

\* min_green_time = 10 (greedy.py:60), max(10, ...) (greedy.py:90),
\* max(15, ...) (greedy.py:109)
MinGreenTime(priority) == IF priority = "Balance Wait Times" THEN 15 ELSE 10

\* green_times before the normalisation, times the total weight W of the
\* roads (greedy.py:69, 90, 109):
\*   max(10, (w / W) * (max_cycle_length - len(roads) * 10) + 10)
\*   max(10, (w / W) * max_cycle_length)     max(15, (w / W) * max_cycle_length)
RawGreen(priority, w, W, n, max_cycle_length) ==
    IF priority = "Minimize Average Delay"
    THEN Max2(10 * W, w * (max_cycle_length - n * 10) + 10 * W)
    ELSE Max2(MinGreenTime(priority) * W, w * max_cycle_length)

\* int(green_times[road] * scaling_factor), scaling_factor =
\* max_cycle_length / total_green (greedy.py:113-124): the values it can
\* take. The product is a float within rounding error of the exact quotient
\* raw * max_cycle_length / total_raw, and int() drops its fraction: the
\* floor of the exact quotient, or one less when the exact quotient is a
\* whole number and the float falls just short of it.
UntruncatedGreen(raw, total_raw, max_cycle_length) ==
    {((raw * max_cycle_length) + (total_raw \div 2)) \div total_raw}
NormalizedGreen(raw, total_raw, max_cycle_length) ==
    LET q == (raw * max_cycle_length) \div total_raw
    IN  IF (raw * max_cycle_length) % total_raw = 0 THEN {q - 1, q} ELSE {q}

\* The call: its arguments, and the signal plan once it has returned.
GreedyCall(records, time_period, priority, max_cycle_length) ==
    [pc |-> "called",
     roads |-> records,
     time_period |-> time_period,
     optimization_priority |-> priority,
     max_cycle_length |-> max_cycle_length,
     signal_plan |-> <<>>,
     results |-> <<>>]

GreedyInputs ==
    {c \in {GreedyCall(records, t, p, m) :
              records \in UNION {[1..n -> FlowRecords \cup {NoRecord}] : n \in 2..MaxSignalRoads},
              t \in SignalPeriods, p \in Priorities, m \in CycleLengths} :
        \/ c.optimization_priority = "Minimize Average Delay"
        \/ \A i \in 1..Len(c.roads) : IsSquare(Flow4(c.roads[i], c.time_period))}

InitGreedy ==
    /\ greedy \in GreedyInputs
    /\ transit = Idle /\ mst = Idle /\ dijkstra = Idle /\ astar = Idle
    /\ app = Idle

RoadFlow4(i) == Flow4(greedy.roads[i], greedy.time_period)
SignalRoads == 1..Len(greedy.roads)
\* total_flow (greedy.py:57), times four
TotalFlow4 == SumOver([i \in SignalRoads |-> RoadFlow4(i)], SignalRoads)

\* avg_wait_time = total_waiting / sum of flows, total_waiting the sum over
\* the traffic_data entries of flow * red_time / 2 (greedy.py:135-146), as a
\* fraction; the two entries of a road carry its flow times one factor.
\* fixed_avg_wait is (max_cycle_length - max_cycle_length / len(roads)) / 2
\* (greedy.py:149-157), the fraction <<m * (n - 1), 2 * n>>.
AvgWaitTime(red_times) ==
    << SumOver([i \in SignalRoads |-> RoadFlow4(i) * red_times[i]], SignalRoads),
       2 * TotalFlow4 >>

\* The whole call for an intersection that carries traffic (greedy.py:17-173).
SignalPlan ==
    /\ greedy.pc = "called"
    /\ TotalFlow4 > 0
    /\ LET p == greedy.optimization_priority
           m == greedy.max_cycle_length
           n == Len(greedy.roads)
           w == [i \in SignalRoads |-> ShareWeight(p, RoadFlow4(i))]
           W == SumOver(w, SignalRoads)
           raw == [i \in SignalRoads |-> RawGreen(p, w[i], W, n, m)]
           total_green == SumOver(raw, SignalRoads)
           outcomes == UNION {NormalizedGreen(raw[i], total_green, m) : i \in SignalRoads}
       IN  \E green_time \in [SignalRoads -> outcomes] :
              /\ \A i \in SignalRoads :
                    green_time[i] \in NormalizedGreen(raw[i], total_green, m)
              /\ greedy' = [greedy EXCEPT
                              !.pc = "returned",
                              !.signal_plan =
                                  [i \in SignalRoads |->
                                      [green_time |-> green_time[i],
                                       red_time |-> m - green_time[i]]],
                              !.results =
                                  [total_cycle_length |-> m,
                                   num_phases |-> n,
                                   avg_wait_time |->
                                       AvgWaitTime([i \in SignalRoads |-> m - green_time[i]]),
                                   fixed_avg_wait |-> <<m * (n - 1), 2 * n>>]]
    /\ UNCHANGED <<transit, mst, dijkstra, astar, app>>

\* No road of the intersection has flow: `road_flow / total_flow`
\* (greedy.py:69), `/ total_weight` (greedy.py:89, 109) divide by zero.
SignalZeroDivision ==
    /\ greedy.pc = "called"
    /\ TotalFlow4 = 0
    /\ greedy' = [greedy EXCEPT !.pc = "ZeroDivisionError"]
    /\ UNCHANGED <<transit, mst, dijkstra, astar, app>>

NextGreedy == SignalPlan \/ SignalZeroDivision

SpecGreedy == InitGreedy /\ [][NextGreedy]_vars

\* C4 as stated: for every policy and intersection, green_time + red_time is
\* max_cycle_length for each road and the green times sum to exactly
\* max_cycle_length.
C4_Original ==
    greedy.pc = "returned" =>
        /\ \A i \in SignalRoads :
              greedy.signal_plan[i].green_time + greedy.signal_plan[i].red_time
                  = greedy.max_cycle_length
        /\ SumOver([i \in SignalRoads |-> greedy.signal_plan[i].green_time], SignalRoads)
              = greedy.max_cycle_length

----------------------------------------------------------------------------
(* The road graph of the router (app.py:334-360) and run_dijkstra          *)
(* (shortestpath.py:6-193).                                                *)
(*                                                                         *)
(* Node ids: neighborhoods have integer ids, facilities string ids.  The   *)
(* model writes both as strings ("1" is the integer id 1) and keeps the    *)
(* Python type in IsIntId.  Flows and capacities are in thousands of       *)
(* vehicles per hour, distances in km.                                     *)

MaxEdges == 3

neighborhood_ids == {"1", "2", "3"}
hospital_ids == {"F9", "F10"}
RouteNodes == neighborhood_ids \cup hospital_ids

IsIntId(n) == n \in neighborhood_ids

Road(from, to, distance, capacity, condition) ==
    [from |-> from, to |-> to, distance |-> distance,
     capacity |-> capacity, condition |-> condition]

\* The roads a road list is drawn from.  The last one repeats the pair of
\* the third with other attributes, as the data set repeats 7-15 as 15-7.
\* Conditions 3, 4 and 5 are below the default min_road_condition of 6.
RoadCatalog ==
    << Road("1", "2", 1, 2, 10),
       Road("2", "F9", 1, 2, 8),
       Road("1", "F9", 3, 1, 10),
       Road("1", "F10", 1, 2, 3),
       Road("2", "3", 2, 1, 6),
       Road("3", "F10", 1, 2, 5),
       Road("F9", "1", 1, 2, 4) >>

\* A ring through the five nodes with the same attributes on every road.
RingRoads(distance, capacity, condition) ==
    << Road("1", "2", distance, capacity, condition),
       Road("2", "3", distance, capacity, condition),
       Road("3", "F9", distance, capacity, condition),
       Road("F9", "F10", distance, capacity, condition),
       Road("F10", "1", distance, capacity, condition) >>

RoadLists ==
    {Pick(RoadCatalog, S) : S \in SubsetsUpTo(1..Len(RoadCatalog), MaxEdges)}
    \cup {RingRoads(d, 2, c) : d \in {1, 2}, c \in {5, 10}}

\* G.add_edge for each road in turn: an undirected edge per pair of
\* endpoints, a later road of the same pair overwriting the attributes.
BuildGraph(roads) ==
    LET keys == {{roads[i].from, roads[i].to} : i \in 1..Len(roads)}
        last(e) == CHOOSE i \in 1..Len(roads) :
                      /\ {roads[i].from, roads[i].to} = e
                      /\ \A j \in 1..Len(roads) :
                            {roads[j].from, roads[j].to} = e => j <= i
    IN  [e \in keys |-> [distance |-> roads[last(e)].distance,
                         capacity |-> roads[last(e)].capacity,
                         condition |-> roads[last(e)].condition]]

Graphs == {BuildGraph(roads) : roads \in RoadLists}

----------------------------------------------------------------------------

\* traffic_flows: the dict in insertion order.  A key "a-b" is the pair
\* <<a, b>> that road_id.split("-") makes of it.
Entry(a, b, record) == [road_id |-> <<a, b>>, record |-> record]

HeavyFlow == [morning_peak |-> 2, afternoon |-> 1, evening_peak |-> 3, night |-> 0]
LightFlow == [morning_peak |-> 1, afternoon |-> 0, evening_peak |-> 1, night |-> 0]
MorningOnly == [morning_peak |-> 2]

TrafficTables ==
    { <<>>,
      << Entry("1", "2", HeavyFlow), Entry("2", "F9", LightFlow),
         Entry("1", "F9", LightFlow), Entry("2", "3", HeavyFlow),
         Entry("F10", "1", MorningOnly) >>,
      << Entry("2", "1", LightFlow), Entry("1", "2", MorningOnly),
         Entry("F9", "1", HeavyFlow), Entry("3", "1", HeavyFlow),
         Entry("F10", "F9", HeavyFlow), Entry("3", "2", LightFlow) >> }

\* road_id_map[(u, v)] (shortestpath.py:26-31): each key is entered under
\* both orders of its endpoints, so the last key of the pair in the table
\* wins for both; 0 stands for "not in road_id_map".
RoadIdIndex(traffic_flows, u, v) ==
    LET hits == {i \in 1..Len(traffic_flows) :
                    traffic_flows[i].road_id \in {<<u, v>>, <<v, u>>}}
    IN  IF hits = {} THEN 0
        ELSE CHOOSE i \in hits : \A j \in hits : j <= i

\* traffic_flows[road_id].get(time_period, 0)
FlowIn(record, time_period) ==
    IF time_period \in DOMAIN record THEN record[time_period] ELSE 0

\* traffic_factor, as a multiple of 1/1600:
\*   1.0 + 0.15 * (flow / capacity) ** 4, v_c_ratio 1.0 for capacity 0,
\*   1.0 for a road without a flow record.
TrafficFactor(attrs, traffic_flows, u, v, time_period) ==
    LET i == RoadIdIndex(traffic_flows, u, v)
        flow == FlowIn(traffic_flows[i].record, time_period)
    IN  IF i = 0 THEN 1600
        ELSE IF attrs.capacity > 0
             THEN 1600 + (240 * flow * flow * flow * flow)
                             \div (attrs.capacity * attrs.capacity
                                     * attrs.capacity * attrs.capacity)
             ELSE 1840

\* condition_factor = 1.2 - condition / 10, as a multiple of 1/10.
ConditionFactor(attrs) == 12 - attrs.condition

\* The variant whose speed grows with the traffic factor:
\*   distance / (60 * traffic_factor * (1/condition_factor)) * 60.
TimeWeightFasterInTraffic(attrs, traffic_flows, u, v, time_period) ==
    (attrs.distance * 1600 * 1600 * ConditionFactor(attrs))
        \div TrafficFactor(attrs, traffic_flows, u, v, time_period)

\* time_weight = distance / (60 * (1/traffic_factor) * (1/condition_factor)) * 60
\* in minutes, as a multiple of 1/16000.
TimeWeight(attrs, traffic_flows, u, v, time_period) ==
    attrs.distance * TrafficFactor(attrs, traffic_flows, u, v, time_period)
        * ConditionFactor(attrs)

\* An endpoint order for each edge, as temp_graph.edges(data=True) yields
\* it: RoadIdIndex does not depend on it.
EdgeEnds(e) ==
    LET u == CHOOSE x \in e : TRUE
        v == CHOOSE x \in e : e = {u, x}
    IN  <<u, v>>

\* The variant whose 'time' attribute is the free-flow time, the traffic
\* factor entering 'weight' only.
ReweightedFreeFlowTime(G, traffic_flows, time_period) ==
    [e \in DOMAIN G |->
        LET ends == EdgeEnds(e)
            w == TimeWeight(G[e], traffic_flows, ends[1], ends[2], time_period)
        IN  [distance |-> G[e].distance,
             weight |-> w,
             time |-> G[e].distance * 1600 * ConditionFactor(G[e]),
             traffic_factor |->
                 TrafficFactor(G[e], traffic_flows, ends[1], ends[2], time_period)]]

\* temp_graph after the reweighting loop (shortestpath.py:33-83).
Reweighted(G, traffic_flows, time_period) ==
    [e \in DOMAIN G |->
        LET ends == EdgeEnds(e)
            w == TimeWeight(G[e], traffic_flows, ends[1], ends[2], time_period)
        IN  [distance |-> G[e].distance,
             weight |-> w,
             time |-> w,
             traffic_factor |->
                 TrafficFactor(G[e], traffic_flows, ends[1], ends[2], time_period)]]

\* float('inf')
float_inf == -1

\* None
None == <<>>

\* Which of several equally short paths the library returns depends on the
\* order in which it meets the nodes and on rounding in the sums it
\* compares: order is the preference among nodes at the same distance,
\* lenient lets an equally long later path replace the earlier one.
TieBreaks == [ascending : BOOLEAN, lenient : BOOLEAN]
FirstFound == [ascending |-> TRUE, lenient |-> FALSE]

NodeRank(n) ==
    CASE n = "1" -> 1 [] n = "2" -> 2 [] n = "3" -> 3
      [] n = "F9" -> 4 [] n = "F10" -> 5

SearchStart(source) ==
    [final |-> {},
     seen |-> [n \in RouteNodes |-> IF n = source THEN 0 ELSE float_inf],
     pred |-> [n \in RouteNodes |-> "none"]]

\* The variant of the relaxation test that takes every path it meets.
ImprovesAlways(st, tie, u, vu) == TRUE

\* if u not in seen or vu < seen[u]
Improves(st, tie, u, vu) ==
    \/ st.seen[u] = float_inf
    \/ vu < st.seen[u]
    \/ tie.lenient /\ vu = st.seen[u]

\* Dijkstra's algorithm as nx.shortest_path(..., weight=) and
\* nx.shortest_path_length(..., weight=) run it: settle the nearest node
\* that is not settled, stop at the target, relax the edges to the
\* neighbours that are not settled.  weight is a function on the edges.
RECURSIVE DijkstraSearch(_, _, _, _)
DijkstraSearch(weight, target, tie, st) ==
    LET fringe == {n \in RouteNodes \ st.final : st.seen[n] # float_inf}
        nearest == {n \in fringe : \A m \in fringe : st.seen[n] <= st.seen[m]}
        v == CHOOSE n \in nearest :
                \A m \in nearest :
                    IF tie.ascending THEN NodeRank(n) <= NodeRank(m)
                                     ELSE NodeRank(n) >= NodeRank(m)
        final == st.final \cup {v}
        vu(u) == st.seen[v] + weight[{u, v}]
        relaxed == {u \in RouteNodes \ final :
                       /\ {u, v} \in DOMAIN weight
                       /\ Improves(st, tie, u, vu(u))}
    IN  IF fringe = {} THEN st
        ELSE IF v = target THEN [st EXCEPT !.final = final]
        ELSE DijkstraSearch(weight, target, tie,
                 [final |-> final,
                  seen |-> [u \in RouteNodes |->
                               IF u \in relaxed THEN vu(u) ELSE st.seen[u]],
                  pred |-> [u \in RouteNodes |->
                               IF u \in relaxed THEN v ELSE st.pred[u]]])

RECURSIVE PathTo(_, _)
PathTo(pred, n) ==
    IF pred[n] = "none" THEN <<n>> ELSE Append(PathTo(pred, pred[n]), n)

\* nx.shortest_path: the path, or None for NetworkXNoPath.
shortest_path(weight, source, target, tie) ==
    LET st == DijkstraSearch(weight, target, tie, SearchStart(source))
    IN  IF target \in st.final THEN PathTo(st.pred, target) ELSE None

\* nx.shortest_path_length: the length, or float_inf for NetworkXNoPath.
shortest_path_length(weight, source, target) ==
    LET st == DijkstraSearch(weight, target, FirstFound, SearchStart(source))
    IN  IF target \in st.final THEN st.seen[target] ELSE float_inf

\* nx.has_path
RECURSIVE Reachable(_, _)
Reachable(edges, S) ==
    LET more == S \cup UNION {e \in edges : e \cap S # {}}
    IN  IF more = S THEN S ELSE Reachable(edges, more)

has_path(edges, source, target) == target \in Reachable(edges, {source})

DijkstraCall(G, origin, destination, time_period, traffic_flows) ==
    [pc |-> "called",
     G |-> G,
     origin |-> origin,
     destination |-> destination,
     time_period |-> time_period,
     traffic_flows |-> traffic_flows,
     path |-> None,
     travel_time |-> 0,
     path_edges |-> <<>>,
     results |-> [error |-> "none"]]

InitDijkstra ==
    /\ dijkstra \in {DijkstraCall(G, o, d, t, f) :
                        G \in Graphs, o \in RouteNodes, d \in RouteNodes,
                        t \in TimeBuckets, f \in TrafficTables}
    /\ transit = Idle
    /\ mst = Idle
    /\ greedy = Idle
    /\ astar = Idle
    /\ app = Idle

\* The weight attribute of the reweighted graph.
WeightOf(graph) == [e \in DOMAIN graph |-> graph[e].weight]

\* path_edges: one record per consecutive pair of the path, in path order
\* (shortestpath.py:90-112).
PathEdges(temp_graph, path) ==
    [i \in 1..(Len(path) - 1) |->
        LET edge_data == temp_graph[{path[i], path[i + 1]}]
        IN  [from |-> path[i],
             to |-> path[i + 1],
             distance |-> edge_data.distance,
             time |-> edge_data.time,
             traffic_factor |-> edge_data.traffic_factor]]

\* The variant of the comparison weights that leaves the traffic out.
PeriodWeightsFreeFlow(G, traffic_flows, period) ==
    [e \in DOMAIN G |-> G[e].distance * 1600 * (12 - G[e].condition)]

\* The 'weight' attribute of period_graph (shortestpath.py:127-158), as a
\* multiple of 1/16000 minute: the loop of the comparison computes
\* traffic_factor and condition_factor anew for the period.
PeriodWeights(G, traffic_flows, period) ==
    [e \in DOMAIN G |->
        LET ends == EdgeEnds(e)
            i == RoadIdIndex(traffic_flows, ends[1], ends[2])
            flow == FlowIn(traffic_flows[i].record, period)
            capacity == G[e].capacity
            traffic_factor ==
                IF i = 0 THEN 1600
                ELSE IF capacity > 0
                     THEN 1600 + (240 * flow * flow * flow * flow)
                                    \div (capacity * capacity * capacity * capacity)
                     ELSE 1840
        IN  G[e].distance * traffic_factor * (12 - G[e].condition)]

\* time_comparison (shortestpath.py:118-164): the active period's entry is
\* travel_time, every other period's is the shortest path length of its own
\* period_graph.
TimeComparison(G, origin, destination, time_period, traffic_flows, travel_time) ==
    [period \in TimeBuckets |->
        IF period = time_period THEN travel_time
        ELSE shortest_path_length(PeriodWeights(G, traffic_flows, period),
                                  origin, destination)]

\* A route is found and has at least one road (shortestpath.py:24-190).
DijkstraReturn ==
    /\ dijkstra.pc = "called"
    /\ \E temp_graph \in {Reweighted(dijkstra.G, dijkstra.traffic_flows,
                                    dijkstra.time_period)} :
       LET weight == WeightOf(temp_graph)
           travel_time == shortest_path_length(weight, dijkstra.origin,
                                               dijkstra.destination)
       IN  \E tie \in TieBreaks :
              LET path == shortest_path(weight, dijkstra.origin,
                                        dijkstra.destination, tie)
                  path_edges == PathEdges(temp_graph, path)
              IN  /\ path # None
                  /\ Len(path_edges) > 0
                  /\ dijkstra' =
                        [dijkstra EXCEPT
                            !.pc = "returned",
                            !.path = path,
                            !.travel_time = travel_time,
                            !.path_edges = path_edges,
                            !.results =
                                [error |-> "none",
                                 total_distance |->
                                     SumSeq([i \in 1..Len(path_edges) |->
                                                path_edges[i].distance]),
                                 time_comparison |->
                                     TimeComparison(dijkstra.G, dijkstra.origin,
                                         dijkstra.destination, dijkstra.time_period,
                                         dijkstra.traffic_flows, travel_time)]]
    /\ UNCHANGED <<transit, mst, greedy, astar, app>>

\* The variant that returns the one-node path as a route of no length.
DijkstraZeroLengthRoute ==
    /\ dijkstra.pc = "called"
    /\ dijkstra.origin = dijkstra.destination
    /\ dijkstra' = [dijkstra EXCEPT !.pc = "returned",
                                    !.path = <<dijkstra.origin>>,
                                    !.travel_time = 0]
    /\ UNCHANGED <<transit, mst, greedy, astar, app>>

\* origin = destination: the path is the one node, path_edges is empty and
\* `/ len(path_edges)` (shortestpath.py:115) divides by zero.
DijkstraZeroDivision ==
    /\ dijkstra.pc = "called"
    /\ dijkstra.origin = dijkstra.destination
    /\ dijkstra' = [dijkstra EXCEPT !.pc = "ZeroDivisionError"]
    /\ UNCHANGED <<transit, mst, greedy, astar, app>>

\* The variant without the except clause.
DijkstraNoPathUncaught ==
    /\ dijkstra.pc = "called"
    /\ shortest_path(WeightOf(Reweighted(dijkstra.G, dijkstra.traffic_flows,
                                         dijkstra.time_period)),
                     dijkstra.origin, dijkstra.destination, FirstFound) = None
    /\ dijkstra' = [dijkstra EXCEPT !.pc = "NetworkXNoPath"]
    /\ UNCHANGED <<transit, mst, greedy, astar, app>>

\* except nx.NetworkXNoPath (shortestpath.py:192-193).
DijkstraNoPath ==
    /\ dijkstra.pc = "called"
    /\ shortest_path(WeightOf(Reweighted(dijkstra.G, dijkstra.traffic_flows,
                                         dijkstra.time_period)),
                     dijkstra.origin, dijkstra.destination, FirstFound) = None
    /\ dijkstra' = [dijkstra EXCEPT !.pc = "returned",
                                    !.path = None,
                                    !.travel_time = float_inf,
                                    !.path_edges = <<>>,
                                    !.results = [error |-> "No path found"]]
    /\ UNCHANGED <<transit, mst, greedy, astar, app>>

NextDijkstra == DijkstraReturn \/ DijkstraZeroDivision \/ DijkstraNoPath

SpecDijkstra == InitDijkstra /\ [][NextDijkstra]_vars

\* The simple paths of the graph with the given edges that start with the
\* nodes of `path` and end at `to`.
RECURSIVE SimplePathsFrom(_, _, _)
SimplePathsFrom(edges, path, to) ==
    LET last == path[Len(path)]
        next == {n \in RouteNodes \ Range(path) : {last, n} \in edges}
    IN  IF last = to THEN {path}
        ELSE UNION {SimplePathsFrom(edges, Append(path, n), to) : n \in next}

SimplePaths(edges, from, to) == SimplePathsFrom(edges, <<from>>, to)

\* The travel time of a path under the active bucket's edge weights.
PathTime(path) ==
    SumSeq([i \in 1..(Len(path) - 1) |->
               TimeWeight(dijkstra.G[{path[i], path[i + 1]}], dijkstra.traffic_flows,
                          path[i], path[i + 1], dijkstra.time_period)])

DijkstraRoutes == SimplePaths(DOMAIN dijkstra.G, dijkstra.origin, dijkstra.destination)

\* The graph is a ring through all five nodes, its roads have the same
\* distance, capacity and condition and no flow in the active bucket.
UniformRing ==
    /\ Cardinality(DOMAIN dijkstra.G) = 5
    /\ \A n \in RouteNodes : Cardinality({e \in DOMAIN dijkstra.G : n \in e}) = 2
    /\ Reachable(DOMAIN dijkstra.G, {"1"}) = RouteNodes
    /\ \A e, f \in DOMAIN dijkstra.G : dijkstra.G[e] = dijkstra.G[f]
    /\ \A e \in DOMAIN dijkstra.G :
          TrafficFactor(dijkstra.G[e], dijkstra.traffic_flows, EdgeEnds(e)[1],
                        EdgeEnds(e)[2], dijkstra.time_period) = 1600

TwoHopsApart ==
    /\ dijkstra.origin # dijkstra.destination
    /\ {dijkstra.origin, dijkstra.destination} \notin DOMAIN dijkstra.G

\* C7: for connected, distinct origin and destination run_dijkstra returns
\* a path, and no path between them has a smaller total travel time under
\* the active bucket's weights than the returned one; on a uniform ring of
\* the five nodes without flow, the route between two nodes two hops apart
\* has two roads and takes twice one road's time.
C7_ShortestPath ==
    (dijkstra.pc = "returned" /\ DijkstraRoutes # {}) =>
        /\ dijkstra.path \in DijkstraRoutes
        /\ \A p \in DijkstraRoutes : PathTime(dijkstra.path) <= PathTime(p)
        /\ \A p \in DijkstraRoutes : dijkstra.travel_time <= PathTime(p)
        /\ (UniformRing /\ TwoHopsApart) =>
              /\ Len(dijkstra.path) = 3
              /\ \A e \in DOMAIN dijkstra.G :
                    dijkstra.travel_time
                        = 2 * TimeWeight(dijkstra.G[e], dijkstra.traffic_flows,
                                         EdgeEnds(e)[1], EdgeEnds(e)[2],
                                         dijkstra.time_period)

\* A route on the uniform ring between two nodes two hops apart has been
\* returned, the three-road way round being the longer alternative.
C7_Witness ==
    /\ dijkstra.pc = "returned"
    /\ UniformRing
    /\ TwoHopsApart
    /\ Len(dijkstra.path) = 3
    /\ \E p \in DijkstraRoutes : PathTime(p) > dijkstra.travel_time

C10_NoPathResult ==
    DijkstraRoutes = {} =>
        /\ dijkstra.pc \in {"called", "returned"}
        /\ dijkstra.pc = "returned" =>
              /\ dijkstra.path = None
              /\ dijkstra.travel_time = float_inf
              /\ dijkstra.path_edges = <<>>
              /\ dijkstra.results.error = "No path found"

\* The no-path result has been returned for two nodes of a graph with
\* roads, in different components.
C10_Witness ==
    /\ dijkstra.pc = "returned"
    /\ DijkstraRoutes = {}
    /\ dijkstra.G # BuildGraph(<<>>)
    /\ \E e \in DOMAIN dijkstra.G : dijkstra.origin \in e
    /\ dijkstra.results.error = "No path found"

----------------------------------------------------------------------------
(* run_a_star (shortestpath.py:202-457).                                   *)
(*                                                                         *)
(* Coordinates are in tenths of a map unit, so that the heuristic          *)
(* (Euclidean distance x 10) is the integer distance between the points.   *)
(* 'distance' in emergency_graph is a multiple of 1/5 km (the penalty      *)
(* factor has denominator 5); g and f scores are multiples of 1/50.        *)

MinRoadConditions == {1, 6}

\* target_hospital = None, and target_hospital_id while it is None
NoHospital == "None"

\* x and y of the neighborhoods and facilities.
Layouts ==
    { [n \in RouteNodes |-> <<0, 0>>],
      [n \in RouteNodes |-> CASE n = "2" -> <<3, 4>>
                              [] n = "3" -> <<3, 0>>
                              [] OTHER -> <<0, 0>>],
      [n \in RouteNodes |-> CASE n = "1" -> <<3, 0>>
                              [] OTHER -> <<0, 0>>],
      [n \in RouteNodes |-> CASE n = "2" -> <<2, 0>>
                              [] OTHER -> <<0, 0>>] }

AStarCall(G, emergency_location, target_hospital, coords, min_road_condition) ==
    [pc |-> "called",
     G |-> G,
     emergency_location |-> emergency_location,
     target_hospital |-> target_hospital,
     coords |-> coords,
     min_road_condition |-> min_road_condition,
     emergency_graph |-> BuildGraph(<<>>),
     target_hospital_id |-> NoHospital,
     open_set |-> {},
     came_from |-> [n \in RouteNodes |-> "none"],
     g_score |-> [n \in RouteNodes |-> float_inf],
     path |-> None,
     travel_time |-> <<0, 1>>,
     path_edges |-> <<>>,
     results |-> [error |-> "none"]]

\* The caller passes a neighborhood as emergency_location and None or a
\* hospital id as target_hospital (app.py:643-661).
InitAStar ==
    /\ astar \in {AStarCall(G, o, t, xy, c) :
                     G \in Graphs, o \in neighborhood_ids,
                     t \in {NoHospital} \cup hospital_ids,
                     xy \in Layouts, c \in MinRoadConditions}
    /\ transit = Idle
    /\ mst = Idle
    /\ greedy = Idle
    /\ dijkstra = Idle
    /\ app = Idle

\* edges_to_remove (shortestpath.py:224-227)
EdgesToRemove(G, min_road_condition) ==
    {e \in DOMAIN G : G[e].condition < min_road_condition}

\* has_path_to_hospital (shortestpath.py:230-242)
HasPathToHospital(G, emergency_location, min_road_condition) ==
    \E hospital_id \in hospital_ids :
        has_path(DOMAIN G \ EdgesToRemove(G, min_road_condition),
                 emergency_location, hospital_id)

\* emergency_graph after shortestpath.py:244-257: without the poor roads
\* if a hospital stays reachable, else with their distance multiplied by
\* 1 + (min_road_condition - condition) / 5.  distance is in 1/5 km.
EmergencyGraph(G, emergency_location, min_road_condition) ==
    IF HasPathToHospital(G, emergency_location, min_road_condition)
    THEN [e \in DOMAIN G \ EdgesToRemove(G, min_road_condition) |->
             [distance |-> G[e].distance * 5, condition |-> G[e].condition]]
    ELSE [e \in DOMAIN G |->
             [distance |-> IF G[e].condition < min_road_condition
                           THEN G[e].distance * (5 + min_road_condition - G[e].condition)
                           ELSE G[e].distance * 5,
              condition |-> G[e].condition]]

\* The variant without G.copy(): edge removal and the distance penalty are
\* written to the graph the caller passed.
FilterRoadsInPlace ==
    /\ astar.pc = "called"
    /\ LET emergency_graph == EmergencyGraph(astar.G, astar.emergency_location,
                                             astar.min_road_condition)
       IN  astar' = [astar EXCEPT
                        !.pc = "filtered",
                        !.emergency_graph = emergency_graph,
                        !.G = [e \in DOMAIN emergency_graph |->
                                  [distance |-> emergency_graph[e].distance,
                                   capacity |-> astar.G[e].capacity,
                                   condition |-> astar.G[e].condition]]]
    /\ UNCHANGED <<transit, mst, greedy, dijkstra, app>>

FilterRoads ==
    /\ astar.pc = "called"
    /\ astar' = [astar EXCEPT
                    !.pc = "filtered",
                    !.emergency_graph =
                        EmergencyGraph(astar.G, astar.emergency_location,
                                       astar.min_road_condition)]
    /\ UNCHANGED <<transit, mst, greedy, dijkstra, app>>

DistanceOf(graph) == [e \in DOMAIN graph |-> graph[e].distance]

\* distances[hospital_id] (shortestpath.py:266-278)
HospitalDistance(hospital_id) ==
    shortest_path_length(DistanceOf(astar.emergency_graph),
                         astar.emergency_location, hospital_id)

\* The hospitals the loop at shortestpath.py:281-286 can end with: a
\* reachable one at the least distance.  Of two at the same distance the
\* loop keeps the first, F9, when the two sums are equal as floats; the
\* sums are over different roads, so either can come out smaller.
NearestHospitals ==
    {h \in hospital_ids :
        /\ HospitalDistance(h) # float_inf
        /\ \A k \in hospital_ids :
              HospitalDistance(k) = float_inf \/ HospitalDistance(h) <= HospitalDistance(k)}

\* heuristic(node), in 1/50 km: Euclidean distance to the hospital x 10.
\* The coordinates are such that the root is whole.
heuristic(coords, node, hospital) ==
    LET dx == coords[node][1] - coords[hospital][1]
        dy == coords[node][2] - coords[hospital][2]
    IN  50 * Sqrt(dx * dx + dy * dy)

\* open_set = [(0, emergency_location)], g_score (shortestpath.py:323-328)
StartSearch(target_hospital_id) ==
    [astar EXCEPT
        !.pc = "search",
        !.target_hospital_id = target_hospital_id,
        !.open_set = {<<0, astar.emergency_location>>},
        !.g_score = [n \in RouteNodes |->
                        IF n = astar.emergency_location THEN 0 ELSE float_inf]]

\* shortestpath.py:259-328 with a hospital to go to.
ChooseHospital ==
    /\ astar.pc = "filtered"
    /\ \E target_hospital_id \in hospital_ids :
          /\ IF astar.target_hospital = NoHospital
             THEN target_hospital_id \in NearestHospitals
             ELSE target_hospital_id = astar.target_hospital
          /\ astar' = StartSearch(target_hospital_id)
    /\ UNCHANGED <<transit, mst, greedy, dijkstra, app>>

\* No hospital was asked for and none is reachable: every distance is inf,
\* target_hospital_id stays None and no facility has that id
\* (shortestpath.py:281-294).
HospitalNotFound ==
    /\ astar.pc = "filtered"
    /\ astar.target_hospital = NoHospital
    /\ NearestHospitals = {}
    /\ astar' = [astar EXCEPT !.pc = "returned",
                              !.path = None,
                              !.travel_time = Inf,
                              !.path_edges = <<>>,
                              !.results = [error |-> "Hospital not found"]]
    /\ UNCHANGED <<transit, mst, greedy, dijkstra, app>>

\* adjusted_weight = distance * (2 - condition / 10), in 1/50 km.
AdjustedWeight(edge_data) == edge_data.distance * (20 - edge_data.condition)

\* The variant that pops whichever entry.
AnyEntries(open_set) == open_set

\* The entries heappop can return: those of the least f.  Python orders
\* entries of equal f by node id; sums that are equal here can differ in
\* the last bit as floats, so any entry of the least f can be the first.
LeastEntries(open_set) ==
    {entry \in open_set : \A other \in open_set : entry[1] <= other[1]}

\* The neighbours the loop at shortestpath.py:425-454 improves.
Improved(current) ==
    {neighbor \in RouteNodes :
        /\ {current, neighbor} \in DOMAIN astar.emergency_graph
        /\ current # neighbor
        /\ LET tentative_g == astar.g_score[current]
                                + AdjustedWeight(astar.emergency_graph[{current, neighbor}])
           IN  \/ astar.g_score[neighbor] = float_inf
               \/ tentative_g < astar.g_score[neighbor]}

TentativeG(current, neighbor) ==
    astar.g_score[current] + AdjustedWeight(astar.emergency_graph[{current, neighbor}])

\* (f_score[neighbor], neighbor) for each improved neighbour.
NewEntries(current) ==
    {<<TentativeG(current, n) + heuristic(astar.coords, n, astar.target_hospital_id), n>> :
        n \in Improved(current)}

\* Two entries of equal f, one of an integer id and one of a string id:
\* comparing them as tuples compares the ids and raises TypeError.
Incomparable(entries) ==
    \E a, b \in entries :
        /\ a[1] = b[1]
        /\ IsIntId(a[2]) /\ ~IsIntId(b[2])

\* One turn of the while loop for a node that is not the target: pop it
\* and improve its neighbours, replacing or adding their entries.
AStarExpand ==
    /\ astar.pc = "search"
    /\ \E entry \in LeastEntries(astar.open_set) :
          LET current == entry[2]
              improved == Improved(current)
          IN  /\ current # astar.target_hospital_id
              /\ astar' =
                    [astar EXCEPT
                        !.open_set =
                            {e \in astar.open_set \ {entry} : e[2] \notin improved}
                                \cup NewEntries(current),
                        !.came_from =
                            [n \in RouteNodes |->
                                IF n \in improved THEN current ELSE astar.came_from[n]],
                        !.g_score =
                            [n \in RouteNodes |->
                                IF n \in improved THEN TentativeG(current, n)
                                ELSE astar.g_score[n]]]
    /\ UNCHANGED <<transit, mst, greedy, dijkstra, app>>

\* heappop, heapify and heappush compare entries of the heap with each
\* other and with the entry pushed; which pairs they compare depends on
\* the layout of the heap, so the error is possible whenever two entries
\* that are in the heap during the turn are incomparable.
AStarTypeError ==
    /\ astar.pc = "search"
    /\ \E entry \in LeastEntries(astar.open_set) :
          Incomparable(astar.open_set
                         \cup IF entry[2] = astar.target_hospital_id THEN {}
                              ELSE NewEntries(entry[2]))
    /\ astar' = [astar EXCEPT !.pc = "TypeError"]
    /\ UNCHANGED <<transit, mst, greedy, dijkstra, app>>

\* path: came_from followed back from the target, reversed.
RECURSIVE ReconstructPath(_, _)
ReconstructPath(came_from, current) ==
    IF came_from[current] = "none" THEN <<current>>
    ELSE Append(ReconstructPath(came_from, came_from[current]), current)

\* path_edges (shortestpath.py:348-380): distance and condition as
\* emergency_graph has them, time = distance / (80 * (1 + condition/10 * 0.5)) * 60
\* minutes as the fraction <<3 * distance, 20 + condition>>.
AStarPathEdges(emergency_graph, path) ==
    [i \in 1..(Len(path) - 1) |->
        LET edge_data == emergency_graph[{path[i], path[i + 1]}]
        IN  [from |-> path[i],
             to |-> path[i + 1],
             distance |-> edge_data.distance,
             time |-> <<3 * edge_data.distance, 20 + edge_data.condition>>,
             condition |-> edge_data.condition]]

\* total_time: the sum of the fractions.
RECURSIVE SumFractions(_)
SumFractions(s) ==
    IF s = <<>> THEN <<0, 1>>
    ELSE LET rest == SumFractions(Tail(s))
         IN  <<Head(s)[1] * rest[2] + rest[1] * Head(s)[2], Head(s)[2] * rest[2]>>

\* The target is popped: the path and its figures are returned
\* (shortestpath.py:335-422).
AStarReturn ==
    /\ astar.pc = "search"
    /\ \E entry \in LeastEntries(astar.open_set) :
          /\ entry[2] = astar.target_hospital_id
          /\ LET path == ReconstructPath(astar.came_from, entry[2])
                 path_edges == AStarPathEdges(astar.emergency_graph, path)
             IN  astar' =
                    [astar EXCEPT
                        !.pc = "returned",
                        !.open_set = astar.open_set \ {entry},
                        !.path = path,
                        !.travel_time =
                            SumFractions([i \in 1..Len(path_edges) |-> path_edges[i].time]),
                        !.path_edges = path_edges,
                        !.results =
                            [error |-> "none",
                             hospital_id |-> astar.target_hospital_id,
                             total_distance |->
                                 SumSeq([i \in 1..Len(path_edges) |->
                                            path_edges[i].distance])]]
    /\ UNCHANGED <<transit, mst, greedy, dijkstra, app>>

\* The open set is empty and the target was never popped
\* (shortestpath.py:457).
AStarNoPath ==
    /\ astar.pc = "search"
    /\ astar.open_set = {}
    /\ astar' = [astar EXCEPT !.pc = "returned",
                              !.path = None,
                              !.travel_time = Inf,
                              !.path_edges = <<>>,
                              !.results = [error |-> "No path found to hospital"]]
    /\ UNCHANGED <<transit, mst, greedy, dijkstra, app>>

NextAStar ==
    \/ FilterRoads
    \/ ChooseHospital
    \/ HospitalNotFound
    \/ AStarExpand
    \/ AStarTypeError
    \/ AStarReturn
    \/ AStarNoPath

SpecAStar == InitAStar /\ [][NextAStar]_vars

\* C1 as stated, read in the code's favour: when the hospital asked for
\* (or, none being asked for, some hospital) is connected to the origin in
\* the input graph, a call that returns returns a path; filtering by
\* min_road_condition never causes a no-path result.
C1_Original ==
    (/\ astar.pc = "returned"
     /\ \E h \in hospital_ids :
           /\ astar.target_hospital \in {NoHospital, h}
           /\ has_path(DOMAIN astar.G, astar.emergency_location, h))
        => astar.path # None

\* The penalized search cost of a path of the searched graph, in 1/50 km.
SearchCost(path) ==
    SumSeq([i \in 1..(Len(path) - 1) |->
               AdjustedWeight(astar.emergency_graph[{path[i], path[i + 1]}])])

AStarRoutes ==
    SimplePaths(DOMAIN astar.emergency_graph, astar.emergency_location,
                astar.target_hospital_id)

\* C9 as stated: the returned path's penalized search cost is at most that
\* of every simple path from the origin to the chosen hospital in the
\* searched graph.
C9_Original ==
    (astar.pc = "returned" /\ astar.path # None) =>
        \A p \in AStarRoutes : SearchCost(astar.path) <= SearchCost(p)

\* The heuristic never overestimates: at every node it is at most the
\* penalized cost of each simple path from there to the chosen hospital.
HeuristicAdmissible ==
    \A n \in RouteNodes :
        \A p \in SimplePaths(DOMAIN astar.emergency_graph, n, astar.target_hospital_id) :
            heuristic(astar.coords, n, astar.target_hospital_id) <= SearchCost(p)

\* C9, amended: when the heuristic overestimates at no node, the returned
\* path's penalized search cost is at most that of every simple path from
\* the origin to the chosen hospital in the searched graph.
C9_OptimalWhenAdmissible ==
    (astar.pc = "returned" /\ astar.path # None /\ HeuristicAdmissible) =>
        /\ astar.path \in AStarRoutes
        /\ \A p \in AStarRoutes : SearchCost(astar.path) <= SearchCost(p)

\* A path has been returned under a heuristic that is admissible and not
\* zero everywhere, a costlier path to the hospital being in the graph.
C9_Witness ==
    /\ astar.pc = "returned"
    /\ astar.path # None
    /\ HeuristicAdmissible
    /\ \E n \in RouteNodes :
          /\ heuristic(astar.coords, n, astar.target_hospital_id) > 0
          /\ astar.g_score[n] # float_inf
    /\ \E p \in AStarRoutes : SearchCost(p) > SearchCost(astar.path)

\* C11 as stated: when no hospital is asked for and no hospital is
\* connected to the origin in the input graph, the call ends before the
\* search starts (nothing was ever put in the open set) and the error it
\* returns is "No path to any hospital".
C11_Original ==
    (/\ astar.pc = "returned"
     /\ astar.target_hospital = NoHospital
     /\ \A h \in hospital_ids : ~has_path(DOMAIN astar.G, astar.emergency_location, h))
        => /\ astar.open_set = {}
           /\ astar.g_score[astar.emergency_location] = float_inf
           /\ astar.results.error = "No path to any hospital"

----------------------------------------------------------------------------
(* The application (app.py): it builds the road graph G from the loaded    *)
(* data (app.py:325-360) and hands G, the road lists and the traffic table *)
(* to the routines it calls.                                               *)

MaxAppRoads == 3

\* The ids of the loaded neighborhoods and facilities.
KnownNodes == RouteNodes

\* Roads the loaded list of existing roads is drawn from: between known
\* nodes, from or to an id that no neighborhood or facility has, and from a
\* node to itself.
AppCatalog ==
    << Road("1", "2", 1, 2, 10),
       Road("2", "F9", 1, 2, 8),
       Road("1", "F9", 3, 1, 4),
       Road("F9", "1", 2, 2, 5),
       Road("1", "99", 1, 2, 10),
       Road("F77", "2", 1, 2, 10),
       Road("2", "2", 1, 2, 10) >>

AppRoadLists ==
    {Pick(AppCatalog, S) : S \in SubsetsUpTo(1..Len(AppCatalog), MaxAppRoads)}

AppPotentialLists == { <<>>, <<NewRoad("1", "F9", 5), NewRoad("2", "F2", 40)>> }

\* G = nx.Graph() with a node for every neighborhood and facility
\* (app.py:335-352), no road added yet.
AppLoad(existing_roads, potential_roads, traffic_flows) ==
    [pc |-> "building",
     existing_roads |-> existing_roads,
     potential_roads |-> potential_roads,
     traffic_flows |-> traffic_flows,
     next |-> 1,
     G_nodes |-> KnownNodes,
     G |-> BuildGraph(<<>>),
     calls |-> 0]

InitApp ==
    /\ app \in {AppLoad(e, p, f) : e \in AppRoadLists, p \in AppPotentialLists,
                                   f \in TrafficTables}
    /\ transit = Idle
    /\ mst = Idle
    /\ greedy = Idle
    /\ dijkstra = Idle
    /\ astar = Idle

\* G.add_edge(road['from'], road['to'], ...) (app.py:354-359): networkx
\* adds an endpoint that is not yet a node of the graph.
AddEdge ==
    /\ app.pc = "building"
    /\ app.next <= Len(app.existing_roads)
    /\ LET road == app.existing_roads[app.next]
       IN  app' = [app EXCEPT
                      !.next = app.next + 1,
                      !.G_nodes = app.G_nodes \cup {road.from, road.to},
                      !.G = BuildGraph(SubSeq(app.existing_roads, 1, app.next))]
    /\ UNCHANGED <<transit, mst, greedy, dijkstra, astar>>

\* Every road is in the graph.
GraphBuilt ==
    /\ app.pc = "building"
    /\ app.next > Len(app.existing_roads)
    /\ app' = [app EXCEPT !.pc = "ready"]
    /\ UNCHANGED <<transit, mst, greedy, dijkstra, astar>>

NextBuild == AddEdge \/ GraphBuilt

SpecBuild == InitApp /\ [][NextBuild]_vars

\* The roads added so far.
RoadsAdded == SubSeq(app.existing_roads, 1, app.next - 1)

\* C12 as stated: building the graph from a road with an endpoint that is
\* not a known neighborhood or facility fails with an invalid-edge error,
\* and the graph never has a node outside the supplied node set.
C12_Original ==
    /\ app.G_nodes \subseteq KnownNodes
    /\ (\E i \in 1..Len(RoadsAdded) :
           ~({RoadsAdded[i].from, RoadsAdded[i].to} \subseteq KnownNodes))
          => app.pc = "InvalidEdgeError"

----------------------------------------------------------------------------
(* A session: once the graph is built the application calls the routines,  *)
(* one call at a time, each with the shared G, road lists and traffic      *)
(* table as arguments.  A routine's G, existing_roads, potential_roads and *)
(* traffic_flows fields are those argument objects themselves: a write     *)
(* through an argument shows as a field that differs from the              *)
(* application's.  The routines are modelled for roads between known       *)
(* nodes, so a session calls them only then.                               *)

MaxCalls == 2

NoCallRunning ==
    /\ mst = Idle
    /\ dijkstra = Idle
    /\ astar = Idle
    /\ greedy = Idle

CanCall ==
    /\ app.pc = "ready"
    /\ app.calls < MaxCalls
    /\ NoCallRunning
    /\ app.G_nodes \subseteq KnownNodes

\* run_mst_algorithm(G, neighborhoods, facilities, existing_roads,
\*     potential_roads if include_potential else [], ...) (app.py:453-461)
StartMst ==
    /\ CanCall
    /\ \E ph \in BOOLEAN, pp \in BOOLEAN, include_potential \in BOOLEAN :
          mst' = MstCall(app.existing_roads,
                         IF include_potential THEN app.potential_roads ELSE <<>>,
                         ph, pp)
    /\ UNCHANGED <<transit, greedy, dijkstra, astar, app>>

\* run_dijkstra(G, origin_id, destination_id, time_period, traffic_flows),
\* called for different origin and destination only (app.py:549-561).
StartDijkstra ==
    /\ CanCall
    /\ \E origin \in {"1", "2"}, destination \in {"2", "F9"},
          time_period \in {"morning_peak", "night"} :
          /\ origin # destination
          /\ dijkstra' = DijkstraCall(app.G, origin, destination, time_period,
                                      app.traffic_flows)
    /\ UNCHANGED <<transit, mst, greedy, astar, app>>

\* run_a_star(G, emergency_id, target_hospital, neighborhoods, facilities,
\*     min_road_condition) (app.py:654-661)
StartAStar ==
    /\ CanCall
    /\ \E emergency_location \in {"1", "2"},
          target_hospital \in {NoHospital, "F9"},
          coords \in Layouts,
          min_road_condition \in MinRoadConditions :
          astar' = AStarCall(app.G, emergency_location, target_hospital, coords,
                             min_road_condition)
    /\ UNCHANGED <<transit, mst, greedy, dijkstra, app>>

\* The flow records of the roads of an intersection: for each of its two
\* roads the record of a key of traffic_flows, or NoRecord for a road id
\* that is not a key.
IntersectionRecords(traffic_flows) ==
    LET full == {traffic_flows[i].record : i \in 1..Len(traffic_flows)}
                   \cap {HeavyFlow, LightFlow}
    IN  [1..2 -> full \cup {NoRecord}]

\* run_greedy_algorithm(traffic_flows, intersection, time_period,
\*     optimization_priority, max_cycle_length) (app.py:940-946)
StartGreedy ==
    /\ CanCall
    /\ \E records \in IntersectionRecords(app.traffic_flows),
          time_period \in {"morning_peak", "afternoon"},
          priority \in Priorities :
          /\ \/ priority = "Minimize Average Delay"
             \/ \A i \in 1..2 : IsSquare(Flow4(records[i], time_period))
          /\ greedy' = GreedyCall(records, time_period, priority, 60)
    /\ UNCHANGED <<transit, mst, dijkstra, astar, app>>

Finished(call) ==
    call.pc \in {"returned", "TypeError", "ZeroDivisionError"}

\* The call is over: its locals are gone, the application goes on.
EndCall ==
    /\ app.pc = "ready"
    /\ \/ Finished(mst) /\ mst' = Idle /\ UNCHANGED <<greedy, dijkstra, astar>>
       \/ Finished(dijkstra) /\ dijkstra' = Idle /\ UNCHANGED <<mst, greedy, astar>>
       \/ Finished(astar) /\ astar' = Idle /\ UNCHANGED <<mst, greedy, dijkstra>>
       \/ Finished(greedy) /\ greedy' = Idle /\ UNCHANGED <<mst, dijkstra, astar>>
    /\ app' = [app EXCEPT !.calls = app.calls + 1]
    /\ UNCHANGED transit

NextSession ==
    \/ AddEdge
    \/ GraphBuilt
    \/ StartMst
    \/ StartDijkstra
    \/ StartAStar
    \/ StartGreedy
    \/ EndCall
    \/ KruskalSelect
    \/ KruskalSkip
    \/ MstReturn
    \/ DijkstraReturn
    \/ DijkstraNoPath
    \/ FilterRoads
    \/ ChooseHospital
    \/ HospitalNotFound
    \/ AStarExpand
    \/ AStarTypeError
    \/ AStarReturn
    \/ AStarNoPath
    \/ SignalPlan
    \/ SignalZeroDivision

SpecSession == InitApp /\ [][NextSession]_vars

\* C13: once the graph is built no step of any call changes the shared
\* graph G (edge set, distance, capacity, condition of every edge), the
\* road lists or the traffic table, and the arguments a running call holds
\* are still what the application holds: reweighting, edge removal and the
\* distance penalty go to the call's own copies.
C13_InputsUnchanged ==
    [][app.pc = "ready" =>
          /\ app'.G = app.G
          /\ app'.G_nodes = app.G_nodes
          /\ app'.existing_roads = app.existing_roads
          /\ app'.potential_roads = app.potential_roads
          /\ app'.traffic_flows = app.traffic_flows
          /\ dijkstra'.pc # "idle" =>
                /\ dijkstra'.G = app.G
                /\ dijkstra'.traffic_flows = app.traffic_flows
          /\ astar'.pc # "idle" => astar'.G = app.G
          /\ mst'.pc # "idle" =>
                /\ mst'.existing_roads = app.existing_roads
                /\ mst'.potential_roads \in {app.potential_roads, <<>>}
          /\ greedy'.pc # "idle" =>
                greedy'.roads \in IntersectionRecords(app.traffic_flows)]_vars

\* In the second call of a session run_a_star has returned a path found in
\* a copy in which a poor road's distance carries the penalty.
C13_Witness ==
    /\ app.pc = "ready"
    /\ app.calls = 1
    /\ astar.pc = "returned"
    /\ astar.path # None
    /\ \E e \in DOMAIN astar.emergency_graph :
          astar.emergency_graph[e].distance > 5 * app.G[e].distance

----------------------------------------------------------------------------
(* Further properties of run_mst_algorithm.                                *)

\* The input roads a selected road can be: same kind, endpoints, distance
\* and (discounted) weight.
SourcesOf(sel) ==
    IF sel.road_type = "existing"
    THEN {r \in Range(mst.existing_roads) :
             /\ r.from = sel.from /\ r.to = sel.to /\ r.distance = sel.distance
             /\ ExistingWeight(r, mst.prioritize_hospitals,
                               mst.prioritize_high_population) = sel.weight}
    ELSE {r \in Range(mst.potential_roads) :
             /\ r.from = sel.from /\ r.to = sel.to /\ r.distance = sel.distance
             /\ PotentialWeight(r, mst.prioritize_hospitals,
                                mst.prioritize_high_population) = sel.weight}

\* The undiscounted costs a selected road can have: (11 - condition) x 10
\* for an existing road, the construction cost for a potential one.
UndiscountedCosts(sel) ==
    {IF sel.road_type = "existing" THEN (11 - r.condition) * 10 ELSE r.cost :
        r \in SourcesOf(sel)}

\* C14: total_cost is the sum over the selected roads of the undiscounted
\* cost, (11 - condition) x 10 for an existing road and the construction
\* cost for a potential road, whatever discounts the weights carry.
C14_UndiscountedTotalCost ==
    mst.pc = "returned" =>
        /\ \A k \in 1..Len(mst.selected_roads) :
              Cardinality(UndiscountedCosts(mst.selected_roads[k])) = 1
        /\ mst.total_cost =
              SumSeq([k \in 1..Len(mst.selected_roads) |->
                         CHOOSE c \in UndiscountedCosts(mst.selected_roads[k]) : TRUE])

\* Roads of both kinds have been selected, an existing and a potential one
\* with a discounted weight (weights are in hundredths).
C14_Witness ==
    /\ mst.pc = "returned"
    /\ \E k \in 1..Len(mst.selected_roads) :
          LET sel == mst.selected_roads[k]
          IN  /\ sel.road_type = "existing"
              /\ \E r \in SourcesOf(sel) : sel.weight < 100 * r.distance * (11 - r.condition) * 10
    /\ \E k \in 1..Len(mst.selected_roads) :
          LET sel == mst.selected_roads[k]
          IN  /\ sel.road_type = "potential"
              /\ \E r \in SourcesOf(sel) : sel.weight < 100 * r.cost
    /\ mst.total_cost > 0

----------------------------------------------------------------------------
(* Two calls of run_transit_optimization with different fleet targets.     *)
(*                                                                         *)
(* Both calls start from the same allocation, and what a pass of either    *)
(* loop does depends on the allocation alone (dp.py:197-275), not on the   *)
(* target: the call with the target nearer to the starting fleet makes the *)
(* first passes of the other call and stops.  The pair is therefore one    *)
(* run of the farther call in which the nearer call's return is recorded   *)
(* when its target is reached.                                             *)

MaxGap == 2

\* max_waiting_time values tried (app.py:741 offers 5..30).
MaxWaitingTimes == {5, 15, 30}

\* peak_waiting = min((operational_minutes / 6) / buses / 2, max_waiting_time),
\* operational_minutes = 1080, as a fraction with a positive denominator
\* (dp.py:283-293); buses is not 0.
PeakWaiting(buses, max_waiting_time) ==
    IF buses < 0 THEN <<-90, -buses>>
    ELSE IF 90 <= max_waiting_time * buses THEN <<90, buses>>
    ELSE <<max_waiting_time, 1>>

\* offpeak_waiting = min((operational_minutes / 12) / buses / 2, max_waiting_time)
OffpeakWaiting(buses, max_waiting_time) ==
    IF buses < 0 THEN <<-45, -buses>>
    ELSE IF 45 <= max_waiting_time * buses THEN <<45, buses>>
    ELSE <<max_waiting_time, 1>>

TransitPairCall(total_buses, first_target) ==
    [pc |-> "allocate",
     total_buses |-> total_buses,
     allocation |-> InitialAllocation,
     extra_buses |-> ExtraBuses(total_buses, InitialAllocation),
     total_buses_allocated |-> 0,
     first_target |-> first_target,
     first_allocation |-> <<>>]

\* The targets between the starting fleet and total_buses, at most MaxGap
\* from total_buses.
NearerTargets(total_buses) ==
    {x \in 0..MaxTotalBuses :
        \E gap \in 1..MaxGap :
           \/ total_buses < StartingFleet /\ x = total_buses + gap /\ x <= StartingFleet
           \/ total_buses > StartingFleet /\ x = total_buses - gap /\ x >= StartingFleet}

InitTransitPair ==
    /\ \E total_buses \in 0..MaxTotalBuses :
          \E first_target \in NearerTargets(total_buses) :
             transit = TransitPairCall(total_buses, first_target)
    /\ mst = Idle
    /\ greedy = Idle
    /\ dijkstra = Idle
    /\ astar = Idle
    /\ app = Idle

\* The call with the nearer target leaves its loop here and returns this
\* allocation (it raises instead if a route is left with no bus).
FirstCallReturns ==
    /\ transit.pc = "allocate"
    /\ transit.first_allocation = <<>>
    /\ AllocationTotal(transit.allocation) = transit.first_target
    /\ \A i \in RouteIdx : transit.allocation[i] # 0
    /\ transit' = [transit EXCEPT !.first_allocation = transit.allocation]
    /\ UNCHANGED <<mst, greedy, dijkstra, astar, app>>

NextTransitPair == AddBus \/ RemoveBus \/ FirstCallReturns \/ TransitReturn

SpecTransitPair == InitTransitPair /\ [][NextTransitPair]_vars

\* Both calls have returned.
BothReturned == transit.pc = "returned" /\ transit.first_allocation # <<>>

\* The allocations under the smaller and under the larger of the targets.
UnderSmaller ==
    IF transit.total_buses < transit.first_target
    THEN transit.allocation ELSE transit.first_allocation
UnderLarger ==
    IF transit.total_buses < transit.first_target
    THEN transit.first_allocation ELSE transit.allocation

\* a <= b for fractions with positive denominators
FracAtMost(a, b) == a[1] * b[2] <= b[1] * a[2]

Monotone ==
    \A i \in RouteIdx :
        /\ UnderLarger[i] >= UnderSmaller[i]
        /\ \A m \in MaxWaitingTimes :
              /\ FracAtMost(PeakWaiting(UnderLarger[i], m), PeakWaiting(UnderSmaller[i], m))
              /\ FracAtMost(OffpeakWaiting(UnderLarger[i], m),
                            OffpeakWaiting(UnderSmaller[i], m))

----------------------------------------------------------------------------
(* run_dijkstra called twice on the same graph, origin, destination and    *)
(* time bucket, the second time with one road's flow for that bucket       *)
(* raised.                                                                 *)

\* The entries of traffic_flows that the reweighting loop reads for an
\* edge of G (shortestpath.py:45-70).
EntriesRead(G, traffic_flows) ==
    {i \in 1..Len(traffic_flows) :
        \E e \in DOMAIN G :
           RoadIdIndex(traffic_flows, EdgeEnds(e)[1], EdgeEnds(e)[2]) = i}

\* traffic_flows with entry i's flow for the bucket one unit higher.
RaisedFlows(traffic_flows, i, time_period) ==
    LET record == traffic_flows[i].record
    IN  [traffic_flows EXCEPT ![i].record =
            [p \in (DOMAIN record) \cup {time_period} |->
                IF p = time_period THEN FlowIn(record, time_period) + 1
                ELSE record[p]]]

\* The buckets tried: one that every record has, one that MorningOnly lacks.
RaisedBuckets == {"morning_peak", "evening_peak"}

\* NoEarlierCall stands for "no call has returned yet".
NoEarlierCall == [pc |-> "none"]

InitDijkstraPair ==
    /\ \E G \in Graphs, o \in RouteNodes, t \in RaisedBuckets,
          f \in TrafficTables \ {<<>>} :
          \E d \in RouteNodes \ {o} :
             dijkstra = DijkstraCall(G, o, d, t, f)
                           @@ [earlier |-> NoEarlierCall, raised |-> 0]
    /\ transit = Idle
    /\ mst = Idle
    /\ greedy = Idle
    /\ astar = Idle
    /\ app = Idle

\* The caller keeps the first result and calls again with one flow raised.
CallWithRaisedFlow ==
    /\ dijkstra.pc = "returned"
    /\ dijkstra.earlier = NoEarlierCall
    /\ \E i \in EntriesRead(dijkstra.G, dijkstra.traffic_flows) :
          dijkstra' =
             DijkstraCall(dijkstra.G, dijkstra.origin, dijkstra.destination,
                          dijkstra.time_period,
                          RaisedFlows(dijkstra.traffic_flows, i, dijkstra.time_period))
                @@ [earlier |-> [pc |-> "returned",
                                 traffic_flows |-> dijkstra.traffic_flows,
                                 path |-> dijkstra.path,
                                 travel_time |-> dijkstra.travel_time],
                    raised |-> i]
    /\ UNCHANGED <<transit, mst, greedy, astar, app>>

NextDijkstraPair == DijkstraReturn \/ DijkstraNoPath \/ CallWithRaisedFlow

SpecDijkstraPair == InitDijkstraPair /\ [][NextDijkstraPair]_vars

\* Both calls have returned.
BothRouted == dijkstra.pc = "returned" /\ dijkstra.earlier # NoEarlierCall

\* The edge whose flow was raised.
RaisedEdge ==
    CHOOSE e \in DOMAIN dijkstra.G :
       RoadIdIndex(dijkstra.traffic_flows, EdgeEnds(e)[1], EdgeEnds(e)[2])
          = dijkstra.raised

\* The travel time of an edge and of a path under a table of flows.
EdgeTimeUnder(e, traffic_flows) ==
    TimeWeight(dijkstra.G[e], traffic_flows, EdgeEnds(e)[1], EdgeEnds(e)[2],
               dijkstra.time_period)

PathTimeUnder(path, traffic_flows) ==
    SumSeq([i \in 1..(Len(path) - 1) |->
               EdgeTimeUnder({path[i], path[i + 1]}, traffic_flows)])

UsesEdge(path, e) == \E i \in 1..(Len(path) - 1) : {path[i], path[i + 1]} = e

\* a <= b for travel times, float_inf being the largest.
TimeAtMost(a, b) == b = float_inf \/ (a # float_inf /\ a <= b)

\* C16: raising one edge's traffic flow for the active time bucket, all
\* else fixed, lowers neither that edge's travel time, nor the travel time
\* of any path using the edge, nor the returned shortest travel time.
C16_FlowMonotone ==
    BothRouted =>
        /\ EdgeTimeUnder(RaisedEdge, dijkstra.earlier.traffic_flows)
              <= EdgeTimeUnder(RaisedEdge, dijkstra.traffic_flows)
        /\ \A a \in RouteNodes : \A b \in RouteNodes \ {a} :
              \A path \in SimplePaths(DOMAIN dijkstra.G, a, b) :
                 UsesEdge(path, RaisedEdge) =>
                    PathTimeUnder(path, dijkstra.earlier.traffic_flows)
                       <= PathTimeUnder(path, dijkstra.traffic_flows)
        /\ TimeAtMost(dijkstra.earlier.travel_time, dijkstra.travel_time)

\* The raised flow made the route slower and moved it to other roads.
C16_Witness ==
    /\ BothRouted
    /\ dijkstra.earlier.travel_time # float_inf
    /\ dijkstra.earlier.travel_time < dijkstra.travel_time
    /\ dijkstra.earlier.path # dijkstra.path
    /\ UsesEdge(dijkstra.earlier.path, RaisedEdge)

----------------------------------------------------------------------------
(* Further properties of run_greedy_algorithm.                             *)

\* An intersection of two roads with flows 100 and 300 in the optimised
\* period, max_cycle_length 120, "Minimize Average Delay".
TwoRoadScenario ==
    /\ greedy.pc = "returned"
    /\ greedy.optimization_priority = "Minimize Average Delay"
    /\ greedy.max_cycle_length = 120
    /\ greedy.time_period # "all_day"
    /\ Len(greedy.roads) = 2
    /\ RoadFlow4(1) = 4 * 1
    /\ RoadFlow4(2) = 4 * 3

\* C17 as stated: in that scenario the returned green times are 30 s and
\* 90 s, the ratio 100:300, to within one second of rounding.
C17_Original ==
    TwoRoadScenario =>
        /\ greedy.signal_plan[1].green_time \in 29..31
        /\ greedy.signal_plan[2].green_time \in 89..91

\* run_greedy_algorithm from its traffic_flows and intersection arguments:
\* the per-road lookup of greedy.py:22-37 first, then the plan as above.

\* Road ids an intersection can name, as the pairs their text splits into.
SignalRoadIds == {<<"1", "2">>, <<"2", "1">>, <<"2", "3">>, <<"3", "2">>}

\* A record that has the morning bucket only.
MorningRecord == [morning_peak |-> 2]

SignalTables ==
    { << Entry("1", "2", [morning_peak |-> 3, afternoon |-> 1,
                          evening_peak |-> 4, night |-> 0]),
         Entry("2", "3", [morning_peak |-> 1, afternoon |-> 1,
                          evening_peak |-> 1, night |-> 1]) >>,
      << Entry("2", "1", [morning_peak |-> 4, afternoon |-> 9,
                          evening_peak |-> 1, night |-> 2]),
         Entry("3", "2", MorningRecord) >>,
      << Entry("1", "2", MorningRecord),
         Entry("2", "1", [morning_peak |-> 1, afternoon |-> 1,
                          evening_peak |-> 1, night |-> 1]) >> }

\* `if road_id in traffic_flows` ... traffic_flows[road_id] (greedy.py:24-30):
\* the record whose key is the road id as written, NoRecord without one.
SignalRecord(traffic_flows, road_id) ==
    LET hits == {i \in 1..Len(traffic_flows) : traffic_flows[i].road_id = road_id}
    IN  IF hits = {} THEN NoRecord
        ELSE traffic_flows[CHOOSE i \in hits : TRUE].record

InitSignalLookup ==
    /\ \E traffic_flows \in SignalTables,
          roads \in [1..2 -> SignalRoadIds],
          time_period \in SignalPeriods,
          max_cycle_length \in CycleLengths :
          greedy = [pc |-> "lookup",
                    traffic_flows |-> traffic_flows,
                    intersection |-> roads,
                    time_period |-> time_period,
                    optimization_priority |-> "Minimize Average Delay",
                    max_cycle_length |-> max_cycle_length]
    /\ transit = Idle /\ mst = Idle /\ dijkstra = Idle /\ astar = Idle
    /\ app = Idle

\* The loop that fills traffic_data (greedy.py:22-52).
BuildTrafficData ==
    /\ greedy.pc = "lookup"
    /\ greedy' =
          GreedyCall([i \in 1..Len(greedy.intersection) |->
                         SignalRecord(greedy.traffic_flows, greedy.intersection[i])],
                     greedy.time_period, greedy.optimization_priority,
                     greedy.max_cycle_length)
             @@ [traffic_flows |-> greedy.traffic_flows,
                 intersection |-> greedy.intersection]
    /\ UNCHANGED <<transit, mst, dijkstra, astar, app>>

NextSignalLookup == BuildTrafficData \/ SignalPlan \/ SignalZeroDivision

SpecSignalLookup == InitSignalLookup /\ [][NextSignalLookup]_vars

\* The records of a table keyed by the two nodes in either order.
KeyedEitherWay(traffic_flows, u, v) ==
    {traffic_flows[i].record :
        i \in {j \in 1..Len(traffic_flows) :
                  traffic_flows[j].road_id \in {<<u, v>>, <<v, u>>}}}

\* The router reads, for an edge given as (u, v) or as (v, u), the same
\* record keyed by the two nodes and of it the bucket's flow only.
RouterLookupSymmetric ==
    \A traffic_flows \in TrafficTables, u \in RouteNodes, v \in RouteNodes,
       t \in TimeBuckets :
       /\ RoadIdIndex(traffic_flows, u, v) = RoadIdIndex(traffic_flows, v, u)
       /\ KeyedEitherWay(traffic_flows, u, v) # {} =>
             /\ RoadIdIndex(traffic_flows, u, v) # 0
             /\ traffic_flows[RoadIdIndex(traffic_flows, u, v)].record
                   \in KeyedEitherWay(traffic_flows, u, v)
       /\ \A attrs \in {[distance |-> 1, capacity |-> 2, condition |-> 10]} :
             TrafficFactor(attrs, traffic_flows, u, v, t)
                = TrafficFactor(attrs, traffic_flows, v, u, t)

\* C18 as stated: a flow record keyed 'u-v' or 'v-u' is found whichever way
\* round the road is named, and only the requested bucket's value is used
\* (0 without one), in the router's reweighting and in the signal
\* optimizer's per-road lookup.
C18_Original ==
    /\ RouterLookupSymmetric
    /\ greedy.pc = "called" =>
          \A i \in 1..Len(greedy.intersection) :
             LET keyed == KeyedEitherWay(greedy.traffic_flows,
                                         greedy.intersection[i][1],
                                         greedy.intersection[i][2])
             IN  keyed # {} =>
                    /\ greedy.roads[i] \in keyed
                    /\ greedy.time_period # "all_day" =>
                          RoadFlow4(i) = 4 * FlowIn(greedy.roads[i], greedy.time_period)

----------------------------------------------------------------------------
(* run_mst_algorithm called twice with the same inputs and both            *)
(* prioritization flags off.                                               *)

\* NoRun stands for "no run has returned yet".
NoRun == [pc |-> "none"]

InitMSTTwice ==
    /\ \E call \in {c \in MstInputs : ~c.prioritize_hospitals
                                       /\ ~c.prioritize_high_population} :
          mst = call @@ [first |-> NoRun]
    /\ transit = Idle /\ greedy = Idle /\ dijkstra = Idle /\ astar = Idle
    /\ app = Idle

\* The caller keeps the first run's results and runs again.
RunAgain ==
    /\ mst.pc = "returned"
    /\ mst.first = NoRun
    /\ mst' = MstCall(mst.existing_roads, mst.potential_roads,
                      mst.prioritize_hospitals, mst.prioritize_high_population)
                 @@ [first |-> [pc |-> "returned",
                                selected_roads |-> mst.selected_roads,
                                total_cost |-> mst.total_cost]]
    /\ UNCHANGED <<transit, greedy, dijkstra, astar, app>>

NextMSTTwice == KruskalSelect \/ KruskalSkip \/ MstReturn \/ RunAgain

SpecMSTTwice == InitMSTTwice /\ [][NextMSTTwice]_vars

\* The edges in input order, existing roads before potential roads.
InputOrder ==
    EdgeList(mst.existing_roads, mst.potential_roads,
             mst.prioritize_hospitals, mst.prioritize_high_population)

\* The place of input edge i among the edges taken by weight, those of one
\* weight in input order.
PlaceByWeight(i) ==
    1 + Cardinality({j \in 1..Len(InputOrder) :
                        \/ InputOrder[j].weight < InputOrder[i].weight
                        \/ /\ InputOrder[j].weight = InputOrder[i].weight
                           /\ j < i})

\* The loop takes the edges by weight and those of one weight in input order.
TakenInInputOrder ==
    /\ Len(mst.edges) = Len(InputOrder)
    /\ \A i \in 1..Len(InputOrder) : mst.edges[PlaceByWeight(i)] = InputOrder[i]

----------------------------------------------------------------------------
(* Further properties of run_a_star.                                       *)

\* The figures of a path from the distances of the input graph G: each
\* road's distance in 1/5 km and its time distance / (80 * (1 + 0.05 *
\* condition)) * 60 as a fraction.
RealPathEdges(path) ==
    [i \in 1..(Len(path) - 1) |->
        LET road == astar.G[{path[i], path[i + 1]}]
        IN  [distance |-> 5 * road.distance,
             time |-> <<3 * 5 * road.distance, 20 + road.condition>>]]

\* C20 as stated: the reported travel time and total distance of the
\* returned path come from each road's real distance; the condition
\* penalty changes the choice of path only.
C20_Original ==
    (astar.pc = "returned" /\ astar.path # None) =>
        LET real == RealPathEdges(astar.path)
        IN  /\ \A i \in 1..Len(real) :
                  /\ astar.path_edges[i].distance = real[i].distance
                  /\ astar.path_edges[i].time = real[i].time
            /\ astar.results.total_distance
                  = SumSeq([i \in 1..Len(real) |-> real[i].distance])
            /\ astar.travel_time
                  = SumFractions([i \in 1..Len(real) |-> real[i].time])

----------------------------------------------------------------------------
(* The prioritization discounts of run_mst_algorithm.                      *)

\* The weight of an edge before any discount, in hundredths: distance *
\* maintenance_cost for an existing road, cost for a potential road.
UndiscountedWeight(edge) ==
    IF edge.road_type = "existing" THEN 100 * edge.distance * edge.cost
    ELSE 100 * edge.cost

\* An endpoint of the edge is a neighborhood of 400,000 people or more.
TouchesHighPopulation(edge) ==
    PopulationOf(edge.from) >= 400000 \/ PopulationOf(edge.to) >= 400000

\* An endpoint of the edge is F1, F9 or F10.
TouchesCriticalFacility(edge) ==
    {edge.from, edge.to} \cap {"F1", "F9", "F10"} # {}

\* C21 as stated: with prioritize_high_population on, every road with an
\* endpoint that is a neighborhood of 400,000 people or more has the
\* high-population discount (x0.7 existing, x0.8 potential) in its weight,
\* whatever its other endpoint is.
C21_Original ==
    (mst.pc # "idle" /\ mst.prioritize_high_population) =>
        \A k \in 1..Len(mst.edges) :
           LET edge == mst.edges[k]
               hospital == IF mst.prioritize_hospitals /\ TouchesCriticalFacility(edge)
                           THEN (IF edge.road_type = "existing" THEN 6 ELSE 7)
                           ELSE 10
           IN  TouchesHighPopulation(edge) =>
                  100 * edge.weight
                     = UndiscountedWeight(edge) * hospital
                          * (IF edge.road_type = "existing" THEN 7 ELSE 8)

\* C22 as stated: with both flags on, a road that joins F1, F9 or F10 to a
\* neighborhood of 400,000 people or more has both discounts in its weight:
\* x0.6 x0.7 when existing, x0.7 x0.8 when potential.
C22_Original ==
    (/\ mst.pc # "idle"
     /\ mst.prioritize_high_population
     /\ mst.prioritize_hospitals) =>
        \A k \in 1..Len(mst.edges) :
           LET edge == mst.edges[k]
           IN  (TouchesHighPopulation(edge) /\ TouchesCriticalFacility(edge)) =>
                  edge.weight * 100 =
                     IF edge.road_type = "existing"
                     THEN UndiscountedWeight(edge) * 42
                     ELSE UndiscountedWeight(edge) * 56

----------------------------------------------------------------------------
(* The Kruskal loop of run_mst_algorithm.                                  *)

\* trees is the partition of the nodes into the connected components of
\* the selected roads.
TreesAreComponents ==
    \A n \in MstNodes : mst.trees[n] = ReachedFrom({n}, SelectedEnds)

\* The selected roads have no cycle: as many roads as nodes less components.
SelectedIsForest ==
    Len(mst.selected_roads)
       = Cardinality(MstNodes) - Cardinality(Components(MstNodes, SelectedEnds))

\* A pass of the loop selects the road it considers exactly when the road's
\* endpoints lie in different components of the roads selected before.
SelectsIffJoining ==
    (mst.pc = "kruskal" /\ mst.next <= Len(mst.edges)) =>
        LET edge == mst.edges[mst.next]
            joins == ReachedFrom({edge.from}, SelectedEnds)
                        # ReachedFrom({edge.to}, SelectedEnds)
        IN  IF joins
            THEN /\ Len(mst'.selected_roads) = Len(mst.selected_roads) + 1
                 /\ mst'.selected_roads[Len(mst'.selected_roads)].from = edge.from
                 /\ mst'.selected_roads[Len(mst'.selected_roads)].to = edge.to
                 /\ SubSeq(mst'.selected_roads, 1, Len(mst.selected_roads))
                       = mst.selected_roads
            ELSE mst'.selected_roads = mst.selected_roads

\* C23: at every step of the Kruskal loop trees is the partition into the
\* connected components of the selected roads, a road is selected if and
\* only if its endpoints are in different components when it is considered,
\* and the selected roads never contain a cycle.
C23_KruskalInvariant ==
    /\ [](mst.pc # "idle" => (TreesAreComponents /\ SelectedIsForest))
    /\ [][SelectsIffJoining]_vars

\* The loop is over; it met a self-loop and a second road between two nodes
\* already joined, and it built a component of three nodes or more.
C23_Witness ==
    /\ mst.pc = "returned"
    /\ \E k \in 1..Len(mst.edges) : mst.edges[k].from = mst.edges[k].to
    /\ \E j, k \in 1..Len(mst.edges) :
          /\ j < k
          /\ mst.edges[j].from # mst.edges[j].to
          /\ {mst.edges[j].from, mst.edges[j].to} = {mst.edges[k].from, mst.edges[k].to}
    /\ \E n \in MstNodes : Cardinality(mst.trees[n]) >= 3

----------------------------------------------------------------------------
(* Further properties of run_transit_optimization.                         *)

\* The route whose allocation a step changes.
RouteChanged == CHOOSE i \in RouteIdx : transit'.allocation[i] # transit.allocation[i]

\* The first route of the catalog among those of the largest saving, and
\* among those of the smallest removal cost.
EarliestBestToAdd(allocation) ==
    CHOOSE i \in RouteIdx :
       /\ \A j \in RouteIdx : ~FracLess(AddValue(allocation, i), AddValue(allocation, j))
       /\ \A j \in 1..(i - 1) : FracLess(AddValue(allocation, j), AddValue(allocation, i))
EarliestBestToRemove(allocation) ==
    CHOOSE i \in RouteIdx :
       /\ \A j \in RouteIdx : ~FracLess(RemoveCost(allocation, j), RemoveCost(allocation, i))
       /\ \A j \in 1..(i - 1) : FracLess(RemoveCost(allocation, i), RemoveCost(allocation, j))

\* C24 as stated: every step adds the bus to a route of the largest marginal
\* saving, or removes it from a route of the smallest marginal removal cost,
\* computed from the current allocation, and of several such routes takes
\* the one earliest in the catalog.
C24_Original ==
    [][(transit.pc = "allocate" /\ transit'.allocation # transit.allocation) =>
          IF transit.extra_buses > 0
          THEN RouteChanged = EarliestBestToAdd(transit.allocation)
          ELSE RouteChanged = EarliestBestToRemove(transit.allocation)]_vars

\* The fewest and the most buses a route may hold in the allocations the
\* result is compared with: at least the starting count when buses are
\* added, between one and the starting count when buses are removed.
FewestBuses(i) ==
    IF transit.total_buses > StartingFleet THEN InitialAllocation[i] ELSE 1
MostBuses(i) ==
    IF transit.total_buses > StartingFleet THEN transit.total_buses
    ELSE InitialAllocation[i]

\* Moving one bus from route i to route j changes the total waiting by
\*   N_i / (b_i (b_i - 1)) - N_j / (b_j (b_j + 1)).
\* No such move within the limits lowers the total waiting.
NoBetterMove(allocation) ==
    \A i \in RouteIdx : \A j \in RouteIdx \ {i} :
       (allocation[i] - 1 >= FewestBuses(i) /\ allocation[j] + 1 <= MostBuses(j)) =>
          ~FracLess(<<TotalWaitNum(bus_routes[i]), allocation[i] * (allocation[i] - 1)>>,
                    AddValue(allocation, j))

\* A common multiple of the bus counts 1..18.
CommonMultiple == 16 * 9 * 5 * 7 * 11 * 13 * 17

\* Total waiting of an allocation, sum of daily_passengers / buses in
\* thousands, times CommonMultiple.
TotalWaiting(allocation) ==
    SumOver([i \in RouteIdx |->
                (bus_routes[i].daily_passengers \div 1000)
                   * (CommonMultiple \div allocation[i])], RouteIdx)

\* The ways to hand out k buses to the first n routes.
RECURSIVE HandOuts(_, _)
HandOuts(n, k) ==
    IF n = 0 THEN (IF k = 0 THEN {<<>>} ELSE {})
    ELSE UNION {{Append(h, m) : h \in HandOuts(n - 1, k - m)} : m \in 0..k}

\* The fleet targets for which the result is compared with every allocation.
ComparedWithAll == (StartingFleet - 3)..(StartingFleet + 3) \ {StartingFleet}

\* Every allocation of total_buses buses within the limits.
AllowedAllocations ==
    LET k == transit.total_buses - StartingFleet
        d == IF k > 0 THEN k ELSE -k
    IN  {a \in {[i \in RouteIdx |->
                    IF k > 0 THEN InitialAllocation[i] + h[i]
                    ELSE InitialAllocation[i] - h[i]] : h \in HandOuts(Len(bus_routes), d)} :
            \A i \in RouteIdx : a[i] >= FewestBuses(i) /\ a[i] <= MostBuses(i)}

\* C25: the returned allocation has the least total passenger-weighted
\* waiting (sum of daily_passengers / buses) of all allocations of
\* total_buses buses within the limits, for a target above the starting
\* fleet and for a target below it that is not below the number of routes.
\* No move of one bus lowers the total (for these convex costs that is the
\* same as being least), and near the starting fleet the result is compared
\* with every allowed allocation.
C25_LeastTotalWaiting ==
    (/\ transit.pc = "returned"
     /\ transit.total_buses >= Len(bus_routes)
     /\ transit.total_buses # StartingFleet) =>
        /\ NoBetterMove(transit.allocation)
        /\ transit.total_buses \in ComparedWithAll =>
              \A a \in AllowedAllocations :
                 TotalWaiting(transit.allocation) <= TotalWaiting(a)

\* Calls that added three buses or removed three have returned with buses
\* moved on more than one route.
C25_Witness ==
    /\ transit.pc = "returned"
    /\ transit.total_buses \in {StartingFleet - 3, StartingFleet + 3}
    /\ Cardinality({i \in RouteIdx : transit.allocation[i] # InitialAllocation[i]}) > 1
    /\ Cardinality(AllowedAllocations) > 200

----------------------------------------------------------------------------
(* Further properties of run_dijkstra.                                     *)

\* The travel_time run_dijkstra returns for the same graph, origin and
\* destination with another time bucket.
TravelTimeIn(bucket) ==
    shortest_path_length(WeightOf(Reweighted(dijkstra.G, dijkstra.traffic_flows, bucket)),
                         dijkstra.origin, dijkstra.destination)

\* The travel time of a path under a bucket's edge weights.
PathTimeUnderBucket(path, bucket) ==
    SumSeq([i \in 1..(Len(path) - 1) |->
               TimeWeight(dijkstra.G[{path[i], path[i + 1]}], dijkstra.traffic_flows,
                          path[i], path[i + 1], bucket)])

RouteReturned == dijkstra.pc = "returned" /\ dijkstra.results.error = "none"

\* C26: for a successful call results.time_comparison has an entry for
\* each of the four buckets, each equal to the travel_time the call returns
\* with that bucket, the active bucket's being the returned travel_time.
C26_TimeComparison ==
    RouteReturned =>
        /\ DOMAIN dijkstra.results.time_comparison
              = {"morning_peak", "afternoon", "evening_peak", "night"}
        /\ \A b \in DOMAIN dijkstra.results.time_comparison :
              dijkstra.results.time_comparison[b] = TravelTimeIn(b)
        /\ dijkstra.results.time_comparison[dijkstra.time_period] = dijkstra.travel_time

\* A route was returned whose travel time differs from bucket to bucket,
\* another bucket's fastest route being other than the returned path.
C26_Witness ==
    /\ RouteReturned
    /\ \E b \in TimeBuckets :
          /\ dijkstra.results.time_comparison[b] # dijkstra.travel_time
          /\ dijkstra.results.time_comparison[b] # PathTimeUnderBucket(dijkstra.path, b)

----------------------------------------------------------------------------
(* The signal plan of run_greedy_algorithm: floors and waiting.            *)

\* C27 as stated: in the returned plan every road's green time is at least
\* the policy's minimum green time (10 s, or 15 s for "Balance Wait
\* Times"), after the rescale and the truncation to whole seconds.
C27_Original ==
    greedy.pc = "returned" =>
        \A i \in SignalRoads :
           greedy.signal_plan[i].green_time >= MinGreenTime(greedy.optimization_priority)

\* C28 as stated: for every intersection of two roads or more and every
\* policy, the flow-weighted average wait of the returned plan is not above
\* that of the equal split of the cycle: results.improvement_pct >= 0.
C28_Original ==
    (greedy.pc = "returned" /\ Len(greedy.roads) >= 2) =>
        greedy.results.avg_wait_time[1] * greedy.results.fixed_avg_wait[2]
           <= greedy.results.fixed_avg_wait[1] * greedy.results.avg_wait_time[2]

----------------------------------------------------------------------------
(* The search loop of run_a_star.                                          *)

\* The open set holds at most one entry per node.
OneEntryPerNode ==
    \A a, b \in astar.open_set : a[2] = b[2] => a = b

\* A turn of the loop changes a node's g-score only by lowering it, and the
\* node then has its entry in the open set.
OnlyStrictDecrease ==
    (astar.pc = "search" /\ astar'.pc = "search") =>
        \A n \in RouteNodes :
           astar'.g_score[n] # astar.g_score[n] =>
              /\ \/ astar.g_score[n] = float_inf
                 \/ astar'.g_score[n] < astar.g_score[n]
              /\ \E e \in astar'.open_set : e[2] = n

\* The loop ends by popping the target, returning a path from the origin to
\* the target, or with an empty open set, returning the no-path result.
EndsByTargetOrEmpty ==
    (astar.pc = "search" /\ astar'.pc # "search") =>
        /\ astar'.pc = "returned"
        /\ \/ /\ astar'.path # None
              /\ astar'.path[1] = astar.emergency_location
              /\ astar'.path[Len(astar'.path)] = astar.target_hospital_id
           \/ /\ astar.open_set = {}
              /\ astar'.path = None
              /\ astar'.results.error = "No path found to hospital"

\* C29 as stated, for how the loop runs and ends: the open set holds at
\* most one entry per node, a node is inserted or updated only when its
\* g-score strictly decreases, and the loop ends either by popping the
\* target hospital, returning the path from origin to target, or with an
\* empty open set, returning the no-path result.
C29_Original ==
    /\ [](astar.pc = "search" => OneEntryPerNode)
    /\ [][OnlyStrictDecrease /\ EndsByTargetOrEmpty]_vars

\* C30: a call with origin equal to destination does not return a route of
\* no length: it ends in the division-by-zero error and returns nothing.
C30_SameNodeRaises ==
    (/\ dijkstra.pc \notin {"idle", "called"}
     /\ dijkstra.origin = dijkstra.destination) =>
        /\ dijkstra.pc = "ZeroDivisionError"
        /\ dijkstra.path = None
        /\ dijkstra.path_edges = <<>>

\* A call from a node to itself, in a graph with a road at that node, has
\* ended in the error.
C30_Witness ==
    /\ dijkstra.pc = "ZeroDivisionError"
    /\ dijkstra.origin = dijkstra.destination
    /\ \E e \in DOMAIN dijkstra.G : dijkstra.origin \in e

====
